---- MODULE Spec2Model ----
(***************************************************************************)
(* The adaptive assessment engine of the placement test backend: the four  *)
(* session state machines (listening, reading, vocabulary, speaking) of    *)
(* backend/app/routers, their difficulty rules and their use of the        *)
(* content generator.                                                      *)
(*                                                                         *)
(* One session is followed from its start request.  Every request handler  *)
(* is one action.  The content generator and the client are the            *)
(* environment: the generator's reply and the client's request are drawn   *)
(* from small sets.                                                        *)
(***************************************************************************)
EXTENDS Integers, Sequences, FiniteSets, TLC

VARIABLES
    skill,            \* which router the followed session belongs to ("none" before start)
    listen_sessions,  \* listen.py _sessions: session id -> ListenSession
    read_sessions,    \* read.py _sessions: session id -> SessionState
    vocab_sessions,   \* vocabulary.py _sessions: session id -> _SessionState
    speak_sessions,   \* speaking.py _sessions: session id -> _SessionState
    tasks,            \* what is suspended on the event loop: the level indexes a
                      \* vocabulary prefetch task may still generate for, or the
                      \* listening submissions waiting for their next batch
    next_uuid,        \* uuid.uuid4(): the next fresh item identifier
    last,             \* the response to the latest request
    env               \* what the environment has done so far (bounds the exploration)

vars == <<skill, listen_sessions, read_sessions, vocab_sessions, speak_sessions,
          tasks, next_uuid, last, env>>

(***************************************************************************)
(* Bounds of the exploration.                                              *)
(***************************************************************************)
\* answers carried by one listening submission
MaxAnswers == 3
\* events of a session beyond its plain course: a request that is not "answer
\* each presented item once", a generator reply that is not valid content, a
\* background prefetch that completes
MaxIrregular == 1
\* submissions of a reading session that find its question cache used up
MaxStuck == 2
\* plain answers of a session that are scored incorrect (speaking: not graded
\* better)
\* the answer submissions of one listening session that may be in flight at once
MaxInFlight == 2

\* the spoken answers a speaking session on its own is followed for
MaxSpoken == 3

\* the longest list of indices a validator reply is tried with
MaxIndices == 3

\* the questions generated for a vocabulary session with concurrent requests
MaxQuestions == 5

\* the longest generator text, in tokens, the parsers are tried on
MaxText == 5

MaxWrong == 2

(***************************************************************************)
(* Shared vocabulary of the four routers.                                  *)
(***************************************************************************)
CEFR_ORDER == <<"A1", "A2", "B1", "B2", "C1", "C2">>

LEVELS == CEFR_ORDER

LevelSet == {CEFR_ORDER[i] : i \in 1..Len(CEFR_ORDER)}

\* CEFR_ORDER.index(level), 0-based as in the source
IndexOf(level) == (CHOOSE i \in 1..Len(CEFR_ORDER) : CEFR_ORDER[i] = level) - 1

\* CEFR_ORDER[idx], 0-based as in the source
LevelAt(idx) == CEFR_ORDER[idx + 1]

CAMBRIDGE_BY_CEFR ==
    [l \in LevelSet |-> IF l \in {"A1", "A2"} THEN "KET"
                        ELSE IF l = "B1" THEN "PET" ELSE "FCE"]

Min(a, b) == IF a < b THEN a ELSE b
Max(a, b) == IF a > b THEN a ELSE b

\* the session id issued by start, and one that was never issued
SID == "s1"
OtherSID == "s0"
SessionIds == {SID, OtherSID}

\* an item id no generator call has produced so far
UnknownId == next_uuid

\* the registry with no session
NoSessions == [s \in {} |-> 0]

\* python dict.get
Registered(sessions, sid) == sid \in DOMAIN sessions

\* python: sessions[sid] = state
Put(sessions, sid, state) == [s \in (DOMAIN sessions) \cup {sid} |->
                                 IF s = sid THEN state ELSE sessions[s]]

\* python: del sessions[sid]
Remove(sessions, sid) == [s \in (DOMAIN sessions) \ {sid} |-> sessions[s]]

(***************************************************************************)
(* The content generator (GeminiClient.generate) as the routers see it.    *)
(* A reply is a provider error, or text that parses as JSON or not and     *)
(* carries delta items more than were asked for, of which item number bad  *)
(* (0: none) is malformed.                                                 *)
(***************************************************************************)
Replies ==
    {[error |-> TRUE, parses |-> FALSE, delta |-> 0, bad |-> 0],
     [error |-> FALSE, parses |-> FALSE, delta |-> 0, bad |-> 0],
     [error |-> FALSE, parses |-> TRUE, delta |-> -1, bad |-> 0],
     [error |-> FALSE, parses |-> TRUE, delta |-> 1, bad |-> 0],
     [error |-> FALSE, parses |-> TRUE, delta |-> 0, bad |-> 1],
     [error |-> FALSE, parses |-> TRUE, delta |-> 0, bad |-> 0]}

\* the reply is content the routers accept
ValidReply(reply) ==
    /\ ~reply.error
    /\ reply.parses
    /\ reply.delta = 0
    /\ reply.bad = 0

\* the answer key the generator gives the item with identifier id
KeyOf(id) == id % 4

\* the HTTP response to a request for session sid: the status code, the
\* finished flag of the payload, and the largest number of generator calls
\* the request made for one piece of content
Response(op, sid, status, finished, attempts) ==
    [op |-> op, sid |-> sid, status |-> status, finished |-> finished,
     attempts |-> attempts]

\* no request was answered
NoResponse == Response("none", "", 0, FALSE, 0)

\* the operations that submit an answer
SubmitOps == {"submit", "answer"}

IsError(resp) == resp.status >= 400

(***************************************************************************)
(* listen.py                                                               *)
(***************************************************************************)
\* _validate_cefr: the start level is fixed
listen_validate_cefr == "A2"

\* class ListenSession, __init__
ListenSession(start_cefr, clips, total) ==
    [start_cefr |-> start_cefr,
     current_cefr |-> start_cefr,
     cambridge_level |-> CAMBRIDGE_BY_CEFR[start_cefr],
     clips |-> clips,
     total |-> total,
     asked |-> 0,
     history |-> <<>>,
     answer_log |-> <<>>,
     clip_lookup |-> clips,
     ended |-> FALSE]

\* the session budget passed by start_session
ListenTotal == 10

\* the batch size of start_session and of submit_answers
ListenBatch == 2

\* _llm_generate_clips: the normalised clips of a valid reply; ids are fresh
listen_clips(cefr, cambridge, count, first_id) ==
    [i \in 1..count |->
        [id |-> first_id + i - 1,
         correct_index |-> KeyOf(first_id + i - 1),
         level_cefr |-> cefr,
         cambridge_level |-> cambridge]]

\* _llm_generate_clips: one generator call, then parse and validate, no retry
_llm_generate_clips(reply, cefr, cambridge, count, first_id) ==
    IF reply.error THEN [ok |-> FALSE, status |-> 500, detail |-> "provider error", clips |-> <<>>]
    ELSE IF ~reply.parses
        THEN [ok |-> FALSE, status |-> 500, detail |-> "LLM did not return valid JSON.", clips |-> <<>>]
    ELSE IF count + reply.delta # count
        THEN [ok |-> FALSE, status |-> 500, detail |-> "LLM did not return exactly count clips", clips |-> <<>>]
    ELSE IF reply.bad # 0
        THEN [ok |-> FALSE, status |-> 500, detail |-> "Invalid clip/question format from LLM", clips |-> <<>>]
    ELSE [ok |-> TRUE, status |-> 200, detail |-> "",
          clips |-> listen_clips(cefr, cambridge, count, first_id)]

\* the pairwise rule without the special case of C2
_adjust_after_pair_plain(state, pair) ==
    IF Len(pair) # 2 THEN state
    ELSE
      LET idx == IndexOf(state.current_cefr)
      IN IF pair[1] /\ pair[2]
         THEN (IF idx < Len(CEFR_ORDER) - 1
               THEN [state EXCEPT !.current_cefr = LevelAt(idx + 1),
                                  !.cambridge_level = CAMBRIDGE_BY_CEFR[LevelAt(idx + 1)]]
               ELSE state)
         ELSE IF (~pair[1]) /\ (~pair[2])
         THEN (IF idx > 0
               THEN [state EXCEPT !.current_cefr = LevelAt(idx - 1),
                                  !.cambridge_level = CAMBRIDGE_BY_CEFR[LevelAt(idx - 1)]]
               ELSE state)
         ELSE state

\* the pairwise rule that moves the level and leaves the exam tag
_adjust_after_pair_level_only(state, pair) ==
    [_adjust_after_pair_plain(state, pair) EXCEPT !.cambridge_level = state.cambridge_level]

\* _adjust_after_pair
_adjust_after_pair(state, pair) ==
    IF Len(pair) # 2 THEN state
    ELSE
      LET before_level == state.current_cefr
          both_correct == pair[1] /\ pair[2]
          both_incorrect == (~pair[1]) /\ (~pair[2])
          idx == IndexOf(before_level)
          down == IF idx > 0
                  THEN [state EXCEPT !.current_cefr = LevelAt(idx - 1),
                                     !.cambridge_level = CAMBRIDGE_BY_CEFR[LevelAt(idx - 1)]]
                  ELSE state
          up == IF idx < Len(CEFR_ORDER) - 1
                THEN [state EXCEPT !.current_cefr = LevelAt(idx + 1),
                                   !.cambridge_level = CAMBRIDGE_BY_CEFR[LevelAt(idx + 1)]]
                ELSE state
      IN IF before_level = "C2"
         THEN (IF ~both_correct THEN down ELSE state)
         ELSE IF both_correct THEN up
         ELSE IF both_incorrect THEN down
         ELSE state

\* history[-2:]
LastTwo(history) ==
    IF Len(history) <= 2 THEN history
    ELSE SubSeq(history, Len(history) - 1, Len(history))

\* the clip of the active batch with this id (id_to_clip.get), or none
ClipsWithId(clips, id) == {i \in 1..Len(clips) : clips[i].id = id}

\* one answer of the request, with the adjustment made after odd answers
listen_record_answer_odd(state, clip, ans) ==
    LET is_correct == (ans.choice_index = clip.correct_index)
        logged == [state EXCEPT
                     !.answer_log = Append(@, [clip_id |-> clip.id,
                                               correct |-> is_correct,
                                               correct_choice_index |-> clip.correct_index,
                                               level_cefr |-> clip.level_cefr,
                                               cambridge_level |-> clip.cambridge_level]),
                     !.history = Append(@, is_correct),
                     !.asked = @ + 1]
    IN IF logged.asked % 2 = 1
       THEN _adjust_after_pair(logged, LastTwo(logged.history))
       ELSE logged

\* submit_answers, lines 476-512: one answer of the request
listen_record_answer(state, clip, ans) ==
    LET is_correct == (ans.choice_index = clip.correct_index)
        logged == [state EXCEPT
                     !.answer_log = Append(@, [clip_id |-> clip.id,
                                               correct |-> is_correct,
                                               correct_choice_index |-> clip.correct_index,
                                               level_cefr |-> clip.level_cefr,
                                               cambridge_level |-> clip.cambridge_level]),
                     !.history = Append(@, is_correct),
                     !.asked = @ + 1]
    IN IF logged.asked % 2 = 0
       THEN _adjust_after_pair(logged, LastTwo(logged.history))
       ELSE logged

\* submit_answers, lines 476-512: the loop over the request's answers; an
\* answer that is refused raises, and what the earlier answers wrote stays
RECURSIVE listen_answer_loop(_, _, _, _)
listen_answer_loop(state, id_to_clip, answers, i) ==
    IF i > Len(answers) THEN [state |-> state, status |-> 200, detail |-> ""]
    ELSE
      LET ans == answers[i]
          found == ClipsWithId(id_to_clip, ans.clip_id)
      IN IF found = {}
         THEN [state |-> state, status |-> 400, detail |-> "Unknown clip_id"]
         ELSE IF ans.choice_index < 0 \/ ans.choice_index > 3
         THEN [state |-> state, status |-> 400, detail |-> "choice_index must be 0..3"]
         ELSE listen_answer_loop(
                  listen_record_answer(state, id_to_clip[CHOOSE k \in found : TRUE], ans),
                  id_to_clip, answers, i + 1)

\* start_session: the session is registered only once its first batch exists
listen_start_session(sessions, reply, first_id) ==
    LET level == listen_validate_cefr
        gen == _llm_generate_clips(reply, level, CAMBRIDGE_BY_CEFR[level], ListenBatch, first_id)
    IN IF ~gen.ok
       THEN [sessions |-> sessions,
             resp |-> Response("start", SID, gen.status, FALSE, 1),
             used |-> 0]
       ELSE [sessions |-> Put(sessions, SID, ListenSession(level, gen.clips, ListenTotal)),
             resp |-> Response("start", SID, 200, FALSE, 1),
             used |-> ListenBatch]

\* submit_answers without its check of the ended flag
listen_session_error_open(sessions, sid) ==
    IF ~Registered(sessions, sid) THEN 404
    ELSE 0

\* submit_answers, lines 466-470: the status that refuses the session, or 0
listen_session_error(sessions, sid) ==
    IF ~Registered(sessions, sid) THEN 404
    ELSE IF sessions[sid].ended THEN 400
    ELSE 0

\* submit_answers
listen_submit_answers(sessions, sid, answers, reply, first_id) ==
    IF listen_session_error(sessions, sid) # 0
    THEN [sessions |-> sessions,
          resp |-> Response("submit", sid, listen_session_error(sessions, sid), FALSE, 0),
          used |-> 0]
    ELSE
      LET state == sessions[sid]
          looped == listen_answer_loop(state, state.clips, answers, 1)
          st == looped.state
      IN IF looped.status # 200
         THEN [sessions |-> Put(sessions, sid, st),
               resp |-> Response("submit", sid, looped.status, FALSE, 0),
               used |-> 0]
         ELSE IF st.asked < st.total
         THEN LET remaining == st.total - st.asked
                  batch_size == Min(ListenBatch, remaining)
                  gen == _llm_generate_clips(reply, st.current_cefr, st.cambridge_level,
                                             batch_size, first_id)
              IN IF ~gen.ok
                 THEN [sessions |-> Put(sessions, sid, st),
                       resp |-> Response("submit", sid, gen.status, FALSE, 1),
                       used |-> 0]
                 ELSE [sessions |-> Put(sessions, sid,
                                        [st EXCEPT !.clips = gen.clips,
                                                   !.clip_lookup = @ \o gen.clips]),
                       resp |-> Response("submit", sid, 200, FALSE, 1),
                       used |-> batch_size]
         ELSE [sessions |-> Put(sessions, sid, [st EXCEPT !.ended = TRUE]),
               resp |-> Response("submit", sid, 200, TRUE, 0),
               used |-> 0]

\* the part of submit_answers before the await, taking the batch out of the
\* session once its answers are recorded
listen_submit_begin_takes_batch(sessions, sid, answers) ==
    IF listen_session_error(sessions, sid) # 0
    THEN [sessions |-> sessions, suspended |-> FALSE,
          resp |-> Response("submit", sid, listen_session_error(sessions, sid), FALSE, 0)]
    ELSE
      LET state == sessions[sid]
          looped == listen_answer_loop(state, state.clips, answers, 1)
          st == [looped.state EXCEPT !.clips = <<>>]
      IN IF looped.status # 200
         THEN [sessions |-> Put(sessions, sid, looped.state), suspended |-> FALSE,
               resp |-> Response("submit", sid, looped.status, FALSE, 0)]
         ELSE IF st.asked < st.total
         THEN [sessions |-> Put(sessions, sid, st), suspended |-> TRUE,
               resp |-> Response("submit", sid, 200, FALSE, 1)]
         ELSE [sessions |-> Put(sessions, sid, [st EXCEPT !.ended = TRUE]),
               suspended |-> FALSE,
               resp |-> Response("submit", sid, 200, TRUE, 0)]

\* submit_answers, lines 466-525: the part that runs before the handler is
\* suspended in `await _llm_generate_clips`; a submission that generates no
\* batch is answered here
listen_submit_begin(sessions, sid, answers) ==
    IF listen_session_error(sessions, sid) # 0
    THEN [sessions |-> sessions, suspended |-> FALSE,
          resp |-> Response("submit", sid, listen_session_error(sessions, sid), FALSE, 0)]
    ELSE
      LET state == sessions[sid]
          looped == listen_answer_loop(state, state.clips, answers, 1)
          st == looped.state
      IN IF looped.status # 200
         THEN [sessions |-> Put(sessions, sid, st), suspended |-> FALSE,
               resp |-> Response("submit", sid, looped.status, FALSE, 0)]
         ELSE IF st.asked < st.total
         THEN [sessions |-> Put(sessions, sid, st), suspended |-> TRUE,
               resp |-> Response("submit", sid, 200, FALSE, 1)]
         ELSE [sessions |-> Put(sessions, sid, [st EXCEPT !.ended = TRUE]),
               suspended |-> FALSE,
               resp |-> Response("submit", sid, 200, TRUE, 0)]

\* what a suspended submission holds: the clips it evaluated, and the
\* arguments of the generator call it waits for (line 525), evaluated when
\* the call is made
ListenCall(req, sid, st, answers) ==
    [req |-> req, sid |-> sid,
     evaluated |-> [i \in 1..Len(answers) |-> answers[i].clip_id],
     cefr |-> st.current_cefr, cambridge |-> st.cambridge_level,
     batch_size |-> Min(ListenBatch, st.total - st.asked)]

\* submit_answers, lines 524-555: the part that runs when the generator call
\* returns; the new batch replaces whatever batch the session has by then
listen_submit_end(sessions, call, reply, first_id) ==
    LET gen == _llm_generate_clips(reply, call.cefr, call.cambridge, call.batch_size, first_id)
    IN IF ~gen.ok
       THEN [sessions |-> sessions,
             resp |-> Response("submit", call.sid, gen.status, FALSE, 1), used |-> 0]
       ELSE [sessions |-> Put(sessions, call.sid,
                              [sessions[call.sid] EXCEPT !.clips = gen.clips,
                                                         !.clip_lookup = @ \o gen.clips]),
             resp |-> Response("submit", call.sid, 200, FALSE, 1),
             used |-> call.batch_size]

(***************************************************************************)
(* The environment of a listening session.                                 *)
(***************************************************************************)
\* what a client may send as choice_index for an item with this key:
\* the key, a wrong option, and a value out of range
ChoiceInputs(key) == {key, (key + 1) % 4, 4}

ListenAnswerInputs(clips) ==
    UNION {{[clip_id |-> clips[i].id, choice_index |-> x] :
                x \in ChoiceInputs(clips[i].correct_index)} : i \in 1..Len(clips)}
    \cup {[clip_id |-> UnknownId, choice_index |-> 0]}

ListenRequests(clips) ==
    UNION {[1..n -> ListenAnswerInputs(clips)] : n \in 0..MaxAnswers}

\* the request answers each clip of the active batch once, in order, in range
ListenConforming(clips, answers) ==
    /\ Len(answers) = Len(clips)
    /\ \A i \in 1..Len(answers) :
          /\ answers[i].clip_id = clips[i].id
          /\ answers[i].choice_index \in 0..3

NoEnv == [irregular |-> 0, wrong |-> 0, fault |-> "none", out |-> FALSE]

\* the environment after a request that was irregular or not and, when it
\* was not, gave this many incorrect answers
EnvAfter(irregular, wrong) ==
    [irregular |-> env.irregular + (IF irregular THEN 1 ELSE 0),
     wrong |-> env.wrong + wrong,
     fault |-> "none",
     out |-> FALSE]

\* what was wrong with the generator's reply to the latest request: nothing,
\* the provider failed, or the content did not parse or validate
FaultOf(reply) ==
    IF reply.error THEN "provider"
    ELSE IF ValidReply(reply) THEN "none"
    ELSE "content"

EnvWithFault(irregular, wrong, fault) ==
    [EnvAfter(irregular, wrong) EXCEPT !.fault = fault]

\* the environment after a request, marked when the request carried a
\* choice_index outside 0..3 for an item the session knows
EnvWithChoice(e, out) == [e EXCEPT !.out = out]

\* the sessions explored: incorrect answers in a session that is otherwise
\* plain, or irregular events in a session that is otherwise answered correctly
EnvAllows(e) ==
    /\ e.irregular <= MaxIrregular
    /\ e.wrong <= MaxWrong
    /\ e.irregular = 0 \/ e.wrong = 0

\* the incorrect answers of a conforming request
ListenWrong(clips, answers) ==
    Cardinality({i \in 1..Len(answers) : answers[i].choice_index # clips[i].correct_index})

OthersUnchangedListen == UNCHANGED <<read_sessions, vocab_sessions, speak_sessions, tasks>>

ListenStart ==
    /\ skill = "none"
    /\ \E reply \in Replies :
          LET r == listen_start_session(listen_sessions, reply, next_uuid)
              e == EnvWithFault(~ValidReply(reply), 0, FaultOf(reply))
          IN /\ EnvAllows(e)
             /\ skill' = "listening"
             /\ listen_sessions' = r.sessions
             /\ next_uuid' = next_uuid + r.used
             /\ last' = r.resp
             /\ env' = e
    /\ OthersUnchangedListen

\* the requests and replies the bounds still allow
ListenRequestsAllowed(clips) ==
    IF env.irregular < MaxIrregular THEN ListenRequests(clips)
    ELSE {answers \in [1..Len(clips) -> ListenAnswerInputs(clips)] :
             ListenConforming(clips, answers)}

GoodReply == CHOOSE r \in Replies : ValidReply(r)

\* the replies a request may get: none is drawn when it calls no generator
RepliesAllowed(calls) ==
    IF calls /\ env.irregular < MaxIrregular THEN Replies ELSE {GoodReply}

ListenSubmit ==
    /\ skill = "listening"
    /\ \E sid \in SessionIds :
          LET live == Registered(listen_sessions, sid) /\ ~listen_sessions[sid].ended
              clips == IF live THEN listen_sessions[sid].clips ELSE <<>>
          IN \E answers \in (IF live THEN ListenRequestsAllowed(clips) ELSE {<<>>}) :
             \E reply \in RepliesAllowed(
                    listen_submit_answers(listen_sessions, sid, answers, GoodReply,
                                          next_uuid).resp.attempts > 0) :
                LET dev == live /\ ~ListenConforming(clips, answers)
                    r == listen_submit_answers(listen_sessions, sid, answers, reply, next_uuid)
                    fault == r.resp.attempts > 0 /\ ~ValidReply(reply)
                    e == EnvWithChoice(
                             EnvWithFault(dev \/ fault,
                                          IF live /\ ~dev THEN ListenWrong(clips, answers) ELSE 0,
                                          FaultOf(reply)),
                             live /\ \E i \in 1..Len(answers) :
                                         /\ answers[i].clip_id # UnknownId
                                         /\ answers[i].choice_index \notin 0..3)
                IN /\ EnvAllows(e)
                   /\ listen_sessions' = r.sessions
                   /\ next_uuid' = next_uuid + r.used
                   /\ last' = r.resp
                   /\ env' = e
    /\ UNCHANGED skill
    /\ OthersUnchangedListen

(***************************************************************************)
(* read.py                                                                 *)
(***************************************************************************)
\* SessionState.__init__ defaults
ReadMaxPassages == 3

ReadQuestionsPerPassage == 5

\* the length of the rolling window last_outcomes
ReadWindow == 5

\* _validate_cefr: "" stands for a missing level; the result "" for the 400
read_validate_cefr(level) ==
    IF level = "" THEN "B1"
    ELSE IF level \notin LevelSet THEN ""
    ELSE level

\* class SessionState, __init__
SessionState(passage, start_cefr) ==
    [passage |-> passage,
     start_cefr |-> start_cefr,
     current_cefr |-> start_cefr,
     cambridge_level |-> CAMBRIDGE_BY_CEFR[start_cefr],
     max_passages |-> ReadMaxPassages,
     questions_per_passage |-> ReadQuestionsPerPassage,
     max_questions |-> ReadMaxPassages * ReadQuestionsPerPassage,
     passage_index |-> 1,
     questions_in_passage_asked |-> 0,
     correct_in_passage |-> 0,
     num_asked |-> 0,
     correct_count |-> 0,
     incorrect_count |-> 0,
     correct_streak |-> 0,
     incorrect_streak |-> 0,
     questions |-> <<>>,
     current_passage_questions |-> <<>>,
     current_question_index |-> 0,
     ended |-> FALSE,
     last_outcomes |-> <<>>]

\* SessionState.next_number
next_number(state) == state.num_asked + 1

\* _llm_generate_passage: any text the provider returns is the passage; the
\* model keeps of the passage the level it was written for
_llm_generate_passage(reply, cefr) ==
    IF reply.error THEN [ok |-> FALSE, status |-> 500, passage |-> [cefr |-> ""]]
    ELSE [ok |-> TRUE, status |-> 200, passage |-> [cefr |-> cefr]]

\* the question generator aiming at the level the session started with
_llm_generate_passage_questions_at_start(reply, state, first_id) ==
    IF reply.error \/ ~reply.parses
       \/ state.questions_per_passage + reply.delta # state.questions_per_passage
       \/ reply.bad # 0
    THEN [ok |-> FALSE, status |-> 500, questions |-> <<>>]
    ELSE [ok |-> TRUE, status |-> 200,
          questions |-> [i \in 1..state.questions_per_passage |->
                            [id |-> first_id + i - 1,
                             number |-> next_number(state) + i - 1,
                             correct_index |-> KeyOf(first_id + i - 1),
                             level_cefr |-> state.start_cefr,
                             cambridge_level |-> CAMBRIDGE_BY_CEFR[state.start_cefr]]]]

\* _llm_generate_passage_questions: one generator call, parse, validate, no retry
_llm_generate_passage_questions(reply, state, first_id) ==
    IF reply.error \/ ~reply.parses
       \/ state.questions_per_passage + reply.delta # state.questions_per_passage
       \/ reply.bad # 0
    THEN [ok |-> FALSE, status |-> 500, questions |-> <<>>]
    ELSE [ok |-> TRUE, status |-> 200,
          questions |-> [i \in 1..state.questions_per_passage |->
                            [id |-> first_id + i - 1,
                             number |-> next_number(state) + i - 1,
                             correct_index |-> KeyOf(first_id + i - 1),
                             level_cefr |-> state.current_cefr,
                             cambridge_level |-> state.cambridge_level]]]

\* _adjust_final_by_last_five
RECURSIVE CountTrue(_)
CountTrue(outcomes) ==
    IF outcomes = <<>> THEN 0
    ELSE (IF outcomes[1] THEN 1 ELSE 0) + CountTrue(Tail(outcomes))

LastFive(outcomes) ==
    IF Len(outcomes) <= 5 THEN outcomes
    ELSE SubSeq(outcomes, Len(outcomes) - 4, Len(outcomes))

\* the final rule with a bump for three correct answers of the last five
_adjust_final_by_last_three(current_cefr, outcomes) ==
    IF outcomes = <<>> THEN current_cefr
    ELSE LET correct == CountTrue(LastFive(outcomes))
             idx == IndexOf(current_cefr)
         IN IF correct >= 3 THEN LevelAt(Min(idx + 1, Len(CEFR_ORDER) - 1))
            ELSE IF correct <= 1 THEN LevelAt(Max(idx - 1, 0))
            ELSE LevelAt(idx)

_adjust_final_by_last_five(current_cefr, outcomes) ==
    IF outcomes = <<>> THEN current_cefr
    ELSE LET correct == CountTrue(LastFive(outcomes))
             idx == IndexOf(current_cefr)
         IN IF correct >= 4 THEN LevelAt(Min(idx + 1, Len(CEFR_ORDER) - 1))
            ELSE IF correct <= 1 THEN LevelAt(Max(idx - 1, 0))
            ELSE LevelAt(idx)

\* the passage-level adjustment with a step of three for a perfect passage
read_passage_level_three(current_cefr, c) ==
    LET idx == IndexOf(current_cefr)
        moved == IF c >= 5 THEN idx + 3
                 ELSE IF c = 4 THEN (IF current_cefr = "C1" THEN idx + 0 ELSE idx + 1)
                 ELSE IF c = 3 THEN idx + 0
                 ELSE IF c = 2 THEN idx - 1
                 ELSE idx - 2
    IN LevelAt(Max(0, Min(moved, Len(CEFR_ORDER) - 1)))

\* submit_answer, lines 331-351: the level after a passage with c correct answers
read_passage_level(current_cefr, c) ==
    LET idx == IndexOf(current_cefr)
        moved == IF c >= 5 THEN idx + 2
                 ELSE IF c = 4 THEN (IF current_cefr = "C1" THEN idx + 0 ELSE idx + 1)
                 ELSE IF c = 3 THEN idx + 0
                 ELSE IF c = 2 THEN idx - 1
                 ELSE idx - 2
    IN LevelAt(Max(0, Min(moved, Len(CEFR_ORDER) - 1)))

\* _step_difficulty
_step_difficulty(state, was_correct) ==
    IF was_correct
    THEN LET s1 == [state EXCEPT !.correct_streak = @ + 1, !.incorrect_streak = 0]
             idx == IndexOf(s1.current_cefr)
             level == IF idx < Len(CEFR_ORDER) - 1 THEN LevelAt(idx + 1) ELSE s1.current_cefr
         IN IF s1.correct_streak >= 2
            THEN [s1 EXCEPT !.current_cefr = level,
                            !.cambridge_level = CAMBRIDGE_BY_CEFR[level],
                            !.correct_streak = 0]
            ELSE s1
    ELSE LET s1 == [state EXCEPT !.incorrect_streak = @ + 1, !.correct_streak = 0]
             idx == IndexOf(s1.current_cefr)
             level == IF idx > 0 THEN LevelAt(idx - 1) ELSE s1.current_cefr
         IN IF s1.incorrect_streak >= 2
            THEN [s1 EXCEPT !.current_cefr = level,
                            !.cambridge_level = CAMBRIDGE_BY_CEFR[level],
                            !.incorrect_streak = 0]
            ELSE s1

\* start_session: the session is registered before its questions are generated
read_start_session(sessions, start_level, reply_p, reply_q, first_id) ==
    LET level == read_validate_cefr(start_level)
    IN IF level = ""
       THEN [sessions |-> sessions, resp |-> Response("start", SID, 400, FALSE, 0), used |-> 0]
       ELSE
         LET pas == _llm_generate_passage(reply_p, level)
         IN IF ~pas.ok
            THEN [sessions |-> sessions, resp |-> Response("start", SID, pas.status, FALSE, 1),
                  used |-> 0]
            ELSE
              LET state == SessionState(pas.passage, level)
                  gen == _llm_generate_passage_questions(reply_q, state, first_id)
              IN IF ~gen.ok
                 THEN [sessions |-> Put(sessions, SID, state),
                       resp |-> Response("start", SID, gen.status, FALSE, 1), used |-> 0]
                 ELSE [sessions |-> Put(sessions, SID,
                          [state EXCEPT !.current_passage_questions = gen.questions,
                                        !.questions = Append(@, gen.questions[1]),
                                        !.num_asked = @ + 1,
                                        !.questions_in_passage_asked = 1]),
                       resp |-> Response("start", SID, 200, FALSE, 1),
                       used |-> state.questions_per_passage]

\* submit_answer, lines 310-329: the answer is scored and counted
read_score(state, was_correct) ==
    LET counted == IF was_correct
                   THEN [state EXCEPT !.correct_count = @ + 1, !.correct_in_passage = @ + 1]
                   ELSE [state EXCEPT !.incorrect_count = @ + 1]
        appended == Append(counted.last_outcomes, was_correct)
    IN [counted EXCEPT
          !.last_outcomes = IF Len(appended) > ReadWindow THEN Tail(appended) ELSE appended,
          !.current_question_index = @ + 1]

\* the end of a passage that keeps the passage's count of correct answers
read_end_passage_keeps_count(state) ==
    LET level == read_passage_level(state.current_cefr, state.correct_in_passage)
    IN [state EXCEPT !.current_cefr = level,
                     !.cambridge_level = CAMBRIDGE_BY_CEFR[level],
                     !.passage_index = @ + 1,
                     !.questions_in_passage_asked = 0,
                     !.current_question_index = 0]

\* submit_answer, lines 331-355: the passage-level adjustment and the reset
read_end_passage(state) ==
    LET level == read_passage_level(state.current_cefr, state.correct_in_passage)
    IN [state EXCEPT !.current_cefr = level,
                     !.cambridge_level = CAMBRIDGE_BY_CEFR[level],
                     !.passage_index = @ + 1,
                     !.questions_in_passage_asked = 0,
                     !.correct_in_passage = 0,
                     !.current_question_index = 0]

\* submit_answer
read_submit_answer(sessions, sid, question_id, choice_index, reply_p, reply_q, first_id) ==
    IF ~Registered(sessions, sid)
    THEN [sessions |-> sessions, resp |-> Response("submit", sid, 404, FALSE, 0), used |-> 0]
    ELSE IF sessions[sid].ended
    THEN [sessions |-> sessions, resp |-> Response("submit", sid, 400, FALSE, 0), used |-> 0]
    ELSE IF sessions[sid].questions = <<>>
    THEN [sessions |-> sessions, resp |-> Response("submit", sid, 400, FALSE, 0), used |-> 0]
    ELSE
      LET state == sessions[sid]
          last_q == state.questions[Len(state.questions)]
      IN IF question_id # last_q.id
         THEN [sessions |-> sessions, resp |-> Response("submit", sid, 400, FALSE, 0), used |-> 0]
         ELSE IF choice_index < 0 \/ choice_index > 3
         THEN [sessions |-> sessions, resp |-> Response("submit", sid, 400, FALSE, 0), used |-> 0]
         ELSE
           LET was_correct == (choice_index = last_q.correct_index)
               end_of_passage ==
                   state.questions_in_passage_asked >= state.questions_per_passage
               scored == read_score(state, was_correct)
           IN IF end_of_passage
              THEN
                LET stepped == read_end_passage(scored)
                IN IF stepped.passage_index > stepped.max_passages
                   THEN
                     LET final == _adjust_final_by_last_five(stepped.current_cefr,
                                                             stepped.last_outcomes)
                     IN [sessions |-> Put(sessions, sid,
                            [stepped EXCEPT !.current_cefr = final,
                                            !.cambridge_level = CAMBRIDGE_BY_CEFR[final],
                                            !.ended = TRUE]),
                         resp |-> Response("submit", sid, 200, TRUE, 0), used |-> 0]
                   ELSE
                     LET pas == _llm_generate_passage(reply_p, stepped.current_cefr)
                     IN IF ~pas.ok
                        THEN [sessions |-> Put(sessions, sid, stepped),
                              resp |-> Response("submit", sid, pas.status, FALSE, 1), used |-> 0]
                        ELSE
                          LET withp == [stepped EXCEPT !.passage = pas.passage]
                              gen == _llm_generate_passage_questions(reply_q, withp, first_id)
                          IN IF ~gen.ok
                             THEN [sessions |-> Put(sessions, sid, withp),
                                   resp |-> Response("submit", sid, gen.status, FALSE, 1),
                                   used |-> 0]
                             ELSE [sessions |-> Put(sessions, sid,
                                      [withp EXCEPT
                                         !.current_passage_questions = gen.questions,
                                         !.questions = Append(@, gen.questions[1]),
                                         !.num_asked = @ + 1,
                                         !.questions_in_passage_asked = 1]),
                                   resp |-> Response("submit", sid, 200, FALSE, 1),
                                   used |-> withp.questions_per_passage]
              ELSE IF scored.current_question_index < Len(scored.current_passage_questions)
              THEN [sessions |-> Put(sessions, sid,
                       [scored EXCEPT
                          !.questions = Append(@,
                              scored.current_passage_questions[scored.current_question_index + 1]),
                          !.num_asked = @ + 1,
                          !.questions_in_passage_asked = @ + 1]),
                    resp |-> Response("submit", sid, 200, FALSE, 0), used |-> 0]
              ELSE [sessions |-> Put(sessions, sid, scored),
                    resp |-> Response("submit", sid, 500, FALSE, 0), used |-> 0]

\* get_summary that moves the level by the last five outcomes for every session
get_summary_bumping(sessions, sid) ==
    IF ~Registered(sessions, sid) THEN ""
    ELSE _adjust_final_by_last_five(sessions[sid].current_cefr, sessions[sid].last_outcomes)

\* get_summary: the response's end_cefr; nothing is written
get_summary(sessions, sid) ==
    IF ~Registered(sessions, sid) THEN ""
    ELSE IF sessions[sid].ended THEN sessions[sid].current_cefr
    ELSE _adjust_final_by_last_five(sessions[sid].current_cefr, sessions[sid].last_outcomes)

(***************************************************************************)
(* The environment of a reading session.                                   *)
(***************************************************************************)
\* start_level of the start request: a level, none, or no level at all
StartLevelInputs == {"A1", "C1", "C2", "", "Z9"}

ReadLive(sid) ==
    /\ Registered(read_sessions, sid)
    /\ ~read_sessions[sid].ended
    /\ read_sessions[sid].questions # <<>>

\* the ids a client may name: the question it was last shown, the one before, none
ReadIdInputs(state) ==
    {state.questions[i].id : i \in {k \in 1..Len(state.questions) : k >= Len(state.questions) - 1}}
    \cup {UnknownId}

ReadConforming(state, question_id, choice_index) ==
    /\ question_id = state.questions[Len(state.questions)].id
    /\ choice_index \in 0..3

\* the generator is called by a start with a valid level, and by the submission
\* that ends a passage other than the last
ReadSubmitCalls(state) ==
    /\ state.questions_in_passage_asked >= state.questions_per_passage
    /\ state.passage_index + 1 <= state.max_passages

OthersUnchangedRead == UNCHANGED <<listen_sessions, vocab_sessions, speak_sessions, tasks>>

ReadStart ==
    /\ skill = "none"
    /\ \E start_level \in StartLevelInputs :
       \E reply_p \in RepliesAllowed(read_validate_cefr(start_level) # "") :
       \E reply_q \in RepliesAllowed(read_validate_cefr(start_level) # "" /\ ~reply_p.error) :
          LET r == read_start_session(read_sessions, start_level, reply_p, reply_q, next_uuid)
              fault == reply_p.error \/ ~ValidReply(reply_q)
              e == EnvWithFault(fault, 0,
                                IF reply_p.error THEN "provider" ELSE FaultOf(reply_q))
          IN /\ EnvAllows(e)
             /\ skill' = "reading"
             /\ read_sessions' = r.sessions
             /\ next_uuid' = next_uuid + r.used
             /\ last' = r.resp
             /\ env' = e
    /\ OthersUnchangedRead

ReadSubmit ==
    /\ skill = "reading"
    /\ \E sid \in SessionIds :
          LET live == ReadLive(sid)
              state == read_sessions[sid]
          IN \E question_id \in (IF live THEN ReadIdInputs(state) ELSE {UnknownId}) :
             \E choice_index \in (IF live
                                  THEN ChoiceInputs(state.questions[Len(state.questions)].correct_index)
                                  ELSE {0}) :
                LET dev == live /\ ~ReadConforming(state, question_id, choice_index)
                    calls == live /\ ~dev /\ ReadSubmitCalls(state)
                IN /\ dev => env.irregular < MaxIrregular
                   /\ \E reply_p \in RepliesAllowed(calls) :
                      \E reply_q \in RepliesAllowed(calls /\ ~reply_p.error) :
                         LET r == read_submit_answer(read_sessions, sid, question_id,
                                                     choice_index, reply_p, reply_q, next_uuid)
                             fault == reply_p.error \/ ~ValidReply(reply_q)
                             wrong == live /\ ~dev
                                      /\ choice_index
                                            # state.questions[Len(state.questions)].correct_index
                             e == EnvWithChoice(
                                      EnvWithFault(dev \/ fault, IF wrong THEN 1 ELSE 0,
                                                   IF reply_p.error THEN "provider"
                                                   ELSE FaultOf(reply_q)),
                                      live /\ question_id # UnknownId
                                           /\ choice_index \notin 0..3)
                         IN /\ EnvAllows(e)
                            /\ Registered(r.sessions, sid) =>
                                  r.sessions[sid].current_question_index
                                     < ReadQuestionsPerPassage + MaxStuck
                            /\ read_sessions' = r.sessions
                            /\ next_uuid' = next_uuid + r.used
                            /\ last' = r.resp
                            /\ env' = e
    /\ UNCHANGED skill
    /\ OthersUnchangedRead

\* GET /read/summary answers from the session and writes nothing
ReadSummary ==
    /\ skill = "reading"
    /\ \E sid \in SessionIds :
          last' = Response("summary", sid, IF Registered(read_sessions, sid) THEN 200 ELSE 404,
                           Registered(read_sessions, sid) /\ read_sessions[sid].ended, 0)
    /\ UNCHANGED <<skill, read_sessions, next_uuid, env>>
    /\ OthersUnchangedRead

(***************************************************************************)
(* vocabulary.py                                                           *)
(***************************************************************************)
\* the session budget passed by start
VocabTotal == 15

\* the attempts of _generate_question_for's loop
VocabAttempts == 4

\* class _SessionState, __init__; questions keeps the dict's insertion order
VocabSessionState(level_index, total) ==
    [level_index |-> level_index,
     correct_streak |-> 0,
     incorrect_streak |-> 0,
     asked |-> 0,
     total |-> total,
     questions |-> <<>>,
     history |-> <<>>,
     question_cache |-> [l \in 0..(Len(LEVELS) - 1) |-> <<>>]]

\* level_to_exam
level_to_exam(level) ==
    IF level \in {"A1", "A2"} THEN "KET"
    ELSE IF level = "B1" THEN "PET"
    ELSE "FCE"

\* the loop of attempts that tries again after the status 503
RECURSIVE vocab_attempt_loop_past_503(_, _, _, _)
vocab_attempt_loop_past_503(level_index, script, i, first_id) ==
    IF i > VocabAttempts
    THEN [ok |-> FALSE, status |-> 502, attempts |-> VocabAttempts, q |-> [id |-> first_id]]
    ELSE IF script[i] = "ok"
    THEN [ok |-> TRUE, status |-> 200, attempts |-> i,
          q |-> [id |-> first_id,
                 cefr |-> LevelAt(level_index),
                 exam_target |-> level_to_exam(LevelAt(level_index)),
                 answer_index |-> KeyOf(first_id)]]
    ELSE IF script[i] = "error"
    THEN [ok |-> FALSE, status |-> 500, attempts |-> i, q |-> [id |-> first_id]]
    ELSE vocab_attempt_loop_past_503(level_index, script, i + 1, first_id)

\* what one attempt of _generate_question_for meets: "ok" (a well-formed item
\* the validator finds unique), a reply that does not parse, an item of the
\* wrong format, an item the validator refuses, a provider HTTP status other
\* than 503, the status 503, or a provider error that is no HTTP status
RetriedOutcomes == {"unparseable", "invalid", "not_unique", "http_other"}
FinalOutcomes == {"ok", "http_503", "error"}

\* _generate_question_for: the loop of up to 4 attempts over the outcomes
\* script[1], script[2], ...; attempts counts the generator calls for items
RECURSIVE vocab_attempt_loop(_, _, _, _)
vocab_attempt_loop(level_index, script, i, first_id) ==
    IF i > VocabAttempts
    THEN [ok |-> FALSE, status |-> 502, attempts |-> VocabAttempts, q |-> [id |-> first_id]]
    ELSE IF script[i] = "ok"
    THEN [ok |-> TRUE, status |-> 200, attempts |-> i,
          q |-> [id |-> first_id,
                 cefr |-> LevelAt(level_index),
                 exam_target |-> level_to_exam(LevelAt(level_index)),
                 answer_index |-> KeyOf(first_id)]]
    ELSE IF script[i] = "http_503"
    THEN [ok |-> FALSE, status |-> 503, attempts |-> i, q |-> [id |-> first_id]]
    ELSE IF script[i] = "error"
    THEN [ok |-> FALSE, status |-> 500, attempts |-> i, q |-> [id |-> first_id]]
    ELSE vocab_attempt_loop(level_index, script, i + 1, first_id)

_generate_question_for(level_index, script, first_id) ==
    vocab_attempt_loop(level_index, script, 1, first_id)

\* the streak rule that lets the counters run on after a move
_adjust_level_counting_on(state, was_correct) ==
    IF was_correct
    THEN LET s1 == [state EXCEPT !.correct_streak = @ + 1, !.incorrect_streak = 0]
         IN IF s1.correct_streak >= 2
            THEN [s1 EXCEPT !.level_index = IF @ < Len(LEVELS) - 1 THEN @ + 1 ELSE @]
            ELSE s1
    ELSE LET s1 == [state EXCEPT !.incorrect_streak = @ + 1, !.correct_streak = 0]
         IN IF s1.incorrect_streak >= 2
            THEN [s1 EXCEPT !.level_index = IF @ > 0 THEN @ - 1 ELSE @]
            ELSE s1

\* the streak rule moving the level on every answer
_adjust_level_every(state, was_correct) ==
    IF was_correct
    THEN [state EXCEPT !.level_index = IF @ < Len(LEVELS) - 1 THEN @ + 1 ELSE @,
                       !.correct_streak = 0,
                       !.incorrect_streak = 0]
    ELSE [state EXCEPT !.level_index = IF @ > 0 THEN @ - 1 ELSE @,
                       !.correct_streak = 0,
                       !.incorrect_streak = 0]

\* _adjust_level
_adjust_level(state, was_correct) ==
    IF was_correct
    THEN LET s1 == [state EXCEPT !.correct_streak = @ + 1, !.incorrect_streak = 0]
         IN IF s1.correct_streak >= 2
            THEN [s1 EXCEPT !.level_index = IF @ < Len(LEVELS) - 1 THEN @ + 1 ELSE @,
                            !.correct_streak = 0,
                            !.incorrect_streak = 0]
            ELSE s1
    ELSE LET s1 == [state EXCEPT !.incorrect_streak = @ + 1, !.correct_streak = 0]
         IN IF s1.incorrect_streak >= 2
            THEN [s1 EXCEPT !.level_index = IF @ > 0 THEN @ - 1 ELSE @,
                            !.correct_streak = 0,
                            !.incorrect_streak = 0]
            ELSE s1

\* _preload_questions: the levels a task spawned at this level generates for
levels_to_preload(current_level_index) ==
    {current_level_index}
    \cup (IF current_level_index > 0 THEN {current_level_index - 1} ELSE {})
    \cup (IF current_level_index < Len(LEVELS) - 1 THEN {current_level_index + 1} ELSE {})

\* the prefetch that also shows the question it caches
_preload_questions_shown(state, level_idx, q) ==
    [state EXCEPT !.question_cache[level_idx] = Append(@, q),
                  !.questions = Append(@, q),
                  !.asked = @ + 1]

\* the prefetch that files the question under the session's current level
_preload_questions_current(state, level_idx, q) ==
    [state EXCEPT !.question_cache[state.level_index] = Append(@, q)]

\* _preload_questions, lines 292-296: one question generated and cached
_preload_questions(state, level_idx, q) ==
    [state EXCEPT !.question_cache[level_idx] = Append(@, q)]

\* the serving step that generates whatever the side cache holds
vocab_serve_generates(state, script, first_id) ==
    LET gen == _generate_question_for(state.level_index, script, first_id)
    IN [ok |-> gen.ok, status |-> gen.status, attempts |-> gen.attempts,
        used |-> IF gen.ok THEN 1 ELSE 0, q |-> gen.q, state |-> state]

\* start and next_question: the question served, from the side cache when it
\* has one for the current level, else generated
vocab_serve(state, script, first_id) ==
    IF state.question_cache[state.level_index] # <<>>
    THEN [ok |-> TRUE, status |-> 200, attempts |-> 0, used |-> 0,
          q |-> Head(state.question_cache[state.level_index]),
          state |-> [state EXCEPT !.question_cache[state.level_index] = Tail(@)]]
    ELSE LET gen == _generate_question_for(state.level_index, script, first_id)
         IN [ok |-> gen.ok, status |-> gen.status, attempts |-> gen.attempts,
             used |-> IF gen.ok THEN 1 ELSE 0, q |-> gen.q, state |-> state]

\* start: the session is registered before its first question is generated
vocabulary_start(sessions, start_level, script, first_id) ==
    LET level == IF start_level = "" THEN "A2" ELSE start_level
    IN IF level \notin LevelSet
       THEN [sessions |-> sessions, resp |-> Response("start", SID, 400, FALSE, 0), used |-> 0,
             spawned |-> {}]
       ELSE
         LET state == VocabSessionState(IndexOf(level), VocabTotal)
             got == vocab_serve(state, script, first_id)
         IN IF ~got.ok
            THEN [sessions |-> Put(sessions, SID, state),
                  resp |-> Response("start", SID, got.status, FALSE, got.attempts), used |-> 0,
                  spawned |-> levels_to_preload(state.level_index)]
            ELSE [sessions |-> Put(sessions, SID,
                     [got.state EXCEPT !.questions = Append(@, got.q), !.asked = 1]),
                  resp |-> Response("start", SID, 200, FALSE, got.attempts), used |-> got.used,
                  spawned |-> levels_to_preload(state.level_index)]

\* state.questions.get(question_id)
QuestionsWithId(questions, id) == {i \in 1..Len(questions) : questions[i].id = id}

\* answer
vocabulary_answer(sessions, sid, question_id, choice_index) ==
    IF ~Registered(sessions, sid)
    THEN [sessions |-> sessions, resp |-> Response("answer", sid, 404, FALSE, 0), spawned |-> {}]
    ELSE IF QuestionsWithId(sessions[sid].questions, question_id) = {}
    THEN [sessions |-> sessions, resp |-> Response("answer", sid, 400, FALSE, 0), spawned |-> {}]
    ELSE
      LET state == sessions[sid]
          q == state.questions[CHOOSE i \in QuestionsWithId(state.questions, question_id) : TRUE]
          was_correct == (choice_index = q.answer_index)
          logged == [state EXCEPT !.history = Append(@, [question_id |-> q.id,
                                                         choice_index |-> choice_index,
                                                         answer_index |-> q.answer_index,
                                                         correct |-> was_correct,
                                                         level |-> q.cefr])]
          adjusted == _adjust_level(logged, was_correct)
          finished == adjusted.asked >= adjusted.total
      IN IF ~finished
         THEN [sessions |-> Put(sessions, sid, [adjusted EXCEPT !.asked = @ + 1]),
               resp |-> Response("answer", sid, 200, FALSE, 0),
               spawned |-> levels_to_preload(adjusted.level_index)]
         ELSE [sessions |-> Remove(sessions, sid),
               resp |-> Response("answer", sid, 200, TRUE, 0),
               spawned |-> {}]

\* next_question
vocabulary_next_question(sessions, sid, script, first_id) ==
    IF ~Registered(sessions, sid)
    THEN [sessions |-> sessions, resp |-> Response("next", sid, 404, FALSE, 0), used |-> 0,
          spawned |-> {}]
    ELSE
      LET got == vocab_serve(sessions[sid], script, first_id)
      IN IF ~got.ok
         THEN [sessions |-> sessions, resp |-> Response("next", sid, got.status, FALSE, got.attempts),
               used |-> 0, spawned |-> {}]
         ELSE [sessions |-> Put(sessions, sid, [got.state EXCEPT !.questions = Append(@, got.q)]),
               resp |-> Response("next", sid, 200, FALSE, got.attempts), used |-> got.used,
               spawned |-> levels_to_preload(got.state.level_index)]

(***************************************************************************)
(* The environment of a vocabulary session.                                *)
(***************************************************************************)
\* the outcomes of the attempts of one call of _generate_question_for: some
\* attempts that are retried, then one that ends the loop
AttemptScripts ==
    {[i \in 1..VocabAttempts |-> IF i <= k THEN f ELSE g] :
        k \in 0..VocabAttempts, f \in RetriedOutcomes, g \in FinalOutcomes}

GoodScript == [i \in 1..VocabAttempts |-> "ok"]

\* what was wrong with the first attempt of a script
FaultOfScript(script) ==
    IF script[1] = "ok" THEN "none"
    ELSE IF script[1] \in {"http_503", "http_other", "error"} THEN "provider"
    ELSE "content"

ScriptsAllowed(calls) ==
    IF calls /\ env.irregular < MaxIrregular THEN AttemptScripts ELSE {GoodScript}

\* the ids of the questions the history has an answer for
VocabAnswered(state) == {state.history[i].question_id : i \in 1..Len(state.history)}

\* the two questions shown last, and an id that was never shown
VocabIdInputs(state) ==
    {state.questions[i].id : i \in {k \in 1..Len(state.questions) : k >= Len(state.questions) - 1}}
    \cup {UnknownId}

\* the newest question shown is still waiting for its answer
VocabPending(state) ==
    /\ state.questions # <<>>
    /\ state.questions[Len(state.questions)].id \notin VocabAnswered(state)

VocabAnswerConforming(state, question_id, choice_index) ==
    /\ VocabPending(state)
    /\ question_id = state.questions[Len(state.questions)].id
    /\ choice_index \in 0..3

OthersUnchangedVocab == UNCHANGED <<listen_sessions, read_sessions, speak_sessions>>

VocabStart ==
    /\ skill = "none"
    /\ \E start_level \in StartLevelInputs :
       \E script \in ScriptsAllowed(start_level \in LevelSet \cup {""}) :
          LET r == vocabulary_start(vocab_sessions, start_level, script, next_uuid)
              e == EnvWithFault(script # GoodScript, 0, FaultOfScript(script))
          IN /\ EnvAllows(e)
             /\ skill' = "vocabulary"
             /\ vocab_sessions' = r.sessions
             /\ tasks' = r.spawned
             /\ next_uuid' = next_uuid + r.used
             /\ last' = r.resp
             /\ env' = e
    /\ OthersUnchangedVocab

VocabAnswer ==
    /\ skill = "vocabulary"
    /\ \E sid \in SessionIds :
          LET live == Registered(vocab_sessions, sid) /\ vocab_sessions[sid].questions # <<>>
              state == vocab_sessions[sid]
          IN \E question_id \in (IF live THEN VocabIdInputs(state) ELSE {UnknownId}) :
             \E choice_index \in (IF live /\ question_id # UnknownId
                                  THEN ChoiceInputs(KeyOf(question_id)) ELSE {0}) :
                LET dev == live /\ ~VocabAnswerConforming(state, question_id, choice_index)
                    r == vocabulary_answer(vocab_sessions, sid, question_id, choice_index)
                    wrong == live /\ ~dev /\ choice_index # KeyOf(question_id)
                    e == EnvWithChoice(EnvAfter(dev, IF wrong THEN 1 ELSE 0),
                                       live /\ question_id # UnknownId
                                            /\ choice_index \notin 0..3)
                IN /\ EnvAllows(e)
                   /\ vocab_sessions' = r.sessions
                   /\ tasks' = tasks \cup r.spawned
                   /\ last' = r.resp
                   /\ env' = e
    /\ UNCHANGED <<skill, next_uuid>>
    /\ OthersUnchangedVocab

VocabNext ==
    /\ skill = "vocabulary"
    /\ \E sid \in SessionIds :
          LET live == Registered(vocab_sessions, sid)
              state == vocab_sessions[sid]
              dev == live /\ VocabPending(state)
              calls == live /\ state.question_cache[state.level_index] = <<>>
          IN /\ dev => env.irregular < MaxIrregular
             /\ \E script \in ScriptsAllowed(calls) :
                   LET r == vocabulary_next_question(vocab_sessions, sid, script, next_uuid)
                       e == EnvWithFault(dev \/ script # GoodScript, 0, FaultOfScript(script))
                   IN /\ EnvAllows(e)
                      /\ vocab_sessions' = r.sessions
                      /\ tasks' = tasks \cup r.spawned
                      /\ next_uuid' = next_uuid + r.used
                      /\ last' = r.resp
                      /\ env' = e
    /\ UNCHANGED skill
    /\ OthersUnchangedVocab

\* a job of a prefetch task completes: one question for one of the task's
\* levels is generated and appended to the side cache (a job that fails
\* changes nothing)
VocabPreload ==
    /\ skill = "vocabulary"
    /\ Registered(vocab_sessions, SID)
    /\ env.irregular < MaxIrregular
    /\ \E level_idx \in tasks :
          LET gen == _generate_question_for(level_idx, GoodScript, next_uuid)
          IN /\ vocab_sessions' = Put(vocab_sessions, SID,
                                      _preload_questions(vocab_sessions[SID], level_idx, gen.q))
             /\ next_uuid' = next_uuid + 1
             /\ last' = NoResponse
             /\ env' = EnvAfter(TRUE, 0)
    /\ UNCHANGED <<skill, tasks>>
    /\ OthersUnchangedVocab

(***************************************************************************)
(* speaking.py                                                             *)
(***************************************************************************)
\* the session budget passed by start
SpeakTotal == 8

\* class _SessionState, __init__; items keeps the dict's insertion order
SpeakSessionState(level_index, total) ==
    [level_index |-> level_index,
     correct_streak |-> 0,
     incorrect_streak |-> 0,
     asked |-> 0,
     total |-> total,
     items |-> <<>>,
     history |-> <<>>]

\* _generate_item_for with a second call after a reply that is no item
_generate_item_for_again(level_index, reply, first_id) ==
    IF reply.error
    THEN [ok |-> FALSE, status |-> 500, attempts |-> 1, item |-> [id |-> first_id]]
    ELSE IF ~reply.parses \/ reply.bad # 0
    THEN [ok |-> FALSE, status |-> 502, attempts |-> 2, item |-> [id |-> first_id]]
    ELSE [ok |-> TRUE, status |-> 200, attempts |-> 1,
          item |-> [id |-> first_id,
                    cefr |-> LevelAt(level_index),
                    exam_target |-> level_to_exam(LevelAt(level_index))]]

\* _generate_item_for: one generator call; a provider error or a reply
\* without a JSON object escapes as an exception (500), an empty prompt is 502
_generate_item_for(level_index, reply, first_id) ==
    IF reply.error \/ ~reply.parses
    THEN [ok |-> FALSE, status |-> 500, attempts |-> 1, item |-> [id |-> first_id]]
    ELSE IF reply.bad # 0
    THEN [ok |-> FALSE, status |-> 502, attempts |-> 1, item |-> [id |-> first_id]]
    ELSE [ok |-> TRUE, status |-> 200, attempts |-> 1,
          item |-> [id |-> first_id,
                    cefr |-> LevelAt(level_index),
                    exam_target |-> level_to_exam(LevelAt(level_index))]]

\* the grade of a predicted level against the level of the item
grade_of(predicted_level, cefr) ==
    IF predicted_level \notin LevelSet THEN "equal"
    ELSE IF IndexOf(predicted_level) > IndexOf(cefr) THEN "better"
    ELSE IF IndexOf(predicted_level) < IndexOf(cefr) THEN "worse"
    ELSE "equal"

Grades == {"better", "equal", "worse"}

\* the evaluation that passes the evaluator's grade on as it came
_evaluate_transcript_raw(level, reply) ==
    LET predicted == IF reply.estimated_level \in LevelSet THEN reply.estimated_level ELSE ""
    IN [grade |-> reply.grade, predicted_level |-> predicted]

\* _evaluate_transcript: grade and predicted level out of the evaluator's reply
_evaluate_transcript(level, reply) ==
    LET predicted == IF reply.estimated_level \in LevelSet THEN reply.estimated_level ELSE ""
    IN [grade |-> IF reply.grade \in Grades THEN reply.grade ELSE grade_of(predicted, level),
        predicted_level |-> predicted]

\* the grading that takes the evaluator's word, and equal when it has none
speak_grade_trusting(item, reply, heuristic) ==
    IF reply.fails
    THEN [grade |-> "equal", predicted_level |-> heuristic]
    ELSE LET eval_result == _evaluate_transcript(item.cefr, reply)
         IN IF eval_result.predicted_level = ""
            THEN [grade |-> eval_result.grade, predicted_level |-> heuristic]
            ELSE eval_result

\* answer, lines 780-816: the grade of a transcript that is not empty
speak_grade(item, reply, heuristic) ==
    IF reply.fails
    THEN [grade |-> grade_of(heuristic, item.cefr), predicted_level |-> heuristic]
    ELSE LET eval_result == _evaluate_transcript(item.cefr, reply)
         IN IF eval_result.predicted_level = ""
            THEN [grade |-> grade_of(heuristic, item.cefr), predicted_level |-> heuristic]
            ELSE eval_result

\* _adjust_level_direct without its checks of the ends of LEVELS
_adjust_level_direct_unchecked(state, grade) ==
    IF grade = "better"
    THEN [state EXCEPT !.level_index = @ + 1]
    ELSE IF grade = "worse"
    THEN [state EXCEPT !.level_index = @ - 1]
    ELSE state

\* _adjust_level_direct
_adjust_level_direct(state, grade) ==
    IF grade = "better" /\ state.level_index < Len(LEVELS) - 1
    THEN [state EXCEPT !.level_index = @ + 1]
    ELSE IF grade = "worse" /\ state.level_index > 0
    THEN [state EXCEPT !.level_index = @ - 1]
    ELSE state

\* start: the session is registered before its first item is generated
speaking_start(sessions, start_level, reply, first_id) ==
    LET level == IF start_level = "" THEN "A2" ELSE start_level
    IN IF level \notin LevelSet
       THEN [sessions |-> sessions, resp |-> Response("start", SID, 400, FALSE, 0), used |-> 0]
       ELSE
         LET state == SpeakSessionState(IndexOf(level), SpeakTotal)
             gen == _generate_item_for(state.level_index, reply, first_id)
         IN IF ~gen.ok
            THEN [sessions |-> Put(sessions, SID, state),
                  resp |-> Response("start", SID, gen.status, FALSE, gen.attempts), used |-> 0]
            ELSE [sessions |-> Put(sessions, SID,
                     [state EXCEPT !.items = Append(@, gen.item), !.asked = 1]),
                  resp |-> Response("start", SID, 200, FALSE, gen.attempts), used |-> 1]

\* state.items.get(item_id)
ItemsWithId(items, id) == {i \in 1..Len(items) : items[i].id = id}

\* answer: with an empty transcript no grade is assigned and the handler
\* fails at the history entry that reads it (500), before any change
speaking_answer(sessions, sid, item_id, transcript, reply) ==
    IF ~Registered(sessions, sid)
    THEN [sessions |-> sessions, resp |-> Response("answer", sid, 404, FALSE, 0)]
    ELSE IF ItemsWithId(sessions[sid].items, item_id) = {}
    THEN [sessions |-> sessions, resp |-> Response("answer", sid, 400, FALSE, 0)]
    ELSE IF transcript.empty
    THEN [sessions |-> sessions, resp |-> Response("answer", sid, 500, FALSE, 0)]
    ELSE
      LET state == sessions[sid]
          item == state.items[CHOOSE i \in ItemsWithId(state.items, item_id) : TRUE]
          graded == speak_grade(item, reply, transcript.heuristic)
          logged == [state EXCEPT !.history = Append(@, [item_id |-> item.id,
                                                         grade |-> graded.grade,
                                                         level |-> item.cefr])]
          adjusted == _adjust_level_direct(logged, graded.grade)
          finished == adjusted.asked >= adjusted.total
      IN [sessions |-> IF finished THEN Remove(sessions, sid) ELSE Put(sessions, sid, adjusted),
          resp |-> Response("answer", sid, 200, finished, 0)]

\* next_item
speaking_next_item(sessions, sid, reply, first_id) ==
    IF ~Registered(sessions, sid)
    THEN [sessions |-> sessions, resp |-> Response("next", sid, 404, FALSE, 0), used |-> 0]
    ELSE IF sessions[sid].asked >= sessions[sid].total
    THEN [sessions |-> sessions, resp |-> Response("next", sid, 400, FALSE, 0), used |-> 0]
    ELSE
      LET state == sessions[sid]
          gen == _generate_item_for(state.level_index, reply, first_id)
      IN IF ~gen.ok
         THEN [sessions |-> sessions, resp |-> Response("next", sid, gen.status, FALSE, gen.attempts),
               used |-> 0]
         ELSE [sessions |-> Put(sessions, sid,
                  [state EXCEPT !.items = Append(@, gen.item), !.asked = @ + 1]),
               resp |-> Response("next", sid, 200, FALSE, gen.attempts), used |-> 1]

(***************************************************************************)
(* The environment of a speaking session.                                  *)
(***************************************************************************)
\* the evaluator's reply to a transcript: the call fails, or it gives a grade
\* (or none) and an estimated level (or none)
EvalReplies ==
    {[fails |-> TRUE, grade |-> "", estimated_level |-> ""]}
    \cup {[fails |-> FALSE, grade |-> g, estimated_level |-> l] :
             g \in Grades \cup {""}, l \in {"", "A1", "C2"}}

\* a transcript: empty, or with the level _heuristic_estimate_level finds in it
Transcripts ==
    {[empty |-> TRUE, heuristic |-> "A1"]}
    \cup {[empty |-> FALSE, heuristic |-> l] : l \in {"A1", "B1", "C2"}}

\* the replies that are valid content for the speaking item generator
SpeakReplies == {reply \in Replies : reply.delta = 0}

SpeakRepliesAllowed(calls) ==
    IF calls /\ env.irregular < MaxIrregular THEN SpeakReplies ELSE {GoodReply}

SpeakAnswered(state) == {state.history[i].item_id : i \in 1..Len(state.history)}

SpeakIdInputs(state) ==
    {state.items[i].id : i \in {k \in 1..Len(state.items) : k >= Len(state.items) - 1}}
    \cup {UnknownId}

SpeakPending(state) ==
    /\ state.items # <<>>
    /\ state.items[Len(state.items)].id \notin SpeakAnswered(state)

\* a plain answer: the pending item, a transcript, an evaluation with a grade
\* and a level
SpeakAnswerConforming(state, item_id, transcript, reply) ==
    /\ SpeakPending(state)
    /\ item_id = state.items[Len(state.items)].id
    /\ ~transcript.empty
    /\ ~reply.fails
    /\ reply.grade \in Grades
    /\ reply.estimated_level \in LevelSet

OthersUnchangedSpeak == UNCHANGED <<listen_sessions, read_sessions, vocab_sessions, tasks>>

SpeakStart ==
    /\ skill = "none"
    /\ \E start_level \in StartLevelInputs :
       \E reply \in SpeakRepliesAllowed(start_level \in LevelSet \cup {""}) :
          LET r == speaking_start(speak_sessions, start_level, reply, next_uuid)
              e == EnvWithFault(~ValidReply(reply), 0, FaultOf(reply))
          IN /\ EnvAllows(e)
             /\ skill' = "speaking"
             /\ speak_sessions' = r.sessions
             /\ next_uuid' = next_uuid + r.used
             /\ last' = r.resp
             /\ env' = e
    /\ OthersUnchangedSpeak

SpeakAnswer ==
    /\ skill = "speaking"
    /\ \E sid \in SessionIds :
          LET live == Registered(speak_sessions, sid) /\ speak_sessions[sid].items # <<>>
              state == speak_sessions[sid]
          IN \E item_id \in (IF live THEN SpeakIdInputs(state) ELSE {UnknownId}) :
             \E transcript \in (IF live THEN Transcripts ELSE {CHOOSE t \in Transcripts : ~t.empty}) :
             \E reply \in (IF live THEN EvalReplies ELSE {CHOOSE e \in EvalReplies : e.fails}) :
                LET dev == live /\ ~SpeakAnswerConforming(state, item_id, transcript, reply)
                    r == speaking_answer(speak_sessions, sid, item_id, transcript, reply)
                    wrong == live /\ ~dev /\ reply.grade # "better"
                    e == EnvAfter(dev, IF wrong THEN 1 ELSE 0)
                IN /\ EnvAllows(e)
                   /\ speak_sessions' = r.sessions
                   /\ last' = r.resp
                   /\ env' = e
    /\ UNCHANGED <<skill, next_uuid>>
    /\ OthersUnchangedSpeak

SpeakNext ==
    /\ skill = "speaking"
    /\ \E sid \in SessionIds :
          LET live == Registered(speak_sessions, sid)
              state == speak_sessions[sid]
              dev == live /\ SpeakPending(state)
              calls == live /\ state.asked < state.total
          IN /\ dev => env.irregular < MaxIrregular
             /\ \E reply \in SpeakRepliesAllowed(calls) :
                   LET r == speaking_next_item(speak_sessions, sid, reply, next_uuid)
                       e == EnvWithFault(dev \/ ~ValidReply(reply), 0, FaultOf(reply))
                   IN /\ EnvAllows(e)
                      /\ speak_sessions' = r.sessions
                      /\ next_uuid' = next_uuid + r.used
                      /\ last' = r.resp
                      /\ env' = e
    /\ UNCHANGED skill
    /\ OthersUnchangedSpeak

Init ==
    /\ skill = "none"
    /\ listen_sessions = NoSessions
    /\ read_sessions = NoSessions
    /\ vocab_sessions = NoSessions
    /\ speak_sessions = NoSessions
    /\ tasks = {}
    /\ next_uuid = 1
    /\ last = NoResponse
    /\ env = NoEnv

Next ==
    \/ ListenStart
    \/ ListenSubmit
    \/ ReadStart
    \/ ReadSubmit
    \/ ReadSummary
    \/ VocabStart
    \/ VocabAnswer
    \/ VocabNext
    \/ VocabPreload
    \/ SpeakStart
    \/ SpeakAnswer
    \/ SpeakNext

Spec == Init /\ [][Next]_vars

(***************************************************************************)
(* The difficulty rules on their own: a session at any level, and every    *)
(* rule applied to it with every outcome.                                  *)
(***************************************************************************)
\* a level with room above and below
MidLevel == "B1"

\* the record of one rule application: the outcome the rule was given, the
\* level index before and after, and the index the same outcome leads to from
\* MidLevel
RuleStep(op, outcome, from, to, mid) ==
    [op |-> op, outcome |-> outcome, from |-> from, to |-> to, mid |-> mid]

RuleSkills == {"listening", "reading", "vocabulary", "speaking"}

InitRules ==
    /\ skill = "rules"
    /\ \E l \in LevelSet : \E rule \in RuleSkills :
          /\ listen_sessions = IF rule = "listening"
                               THEN Put(NoSessions, SID, ListenSession(l, <<>>, ListenTotal))
                               ELSE NoSessions
          /\ read_sessions = IF rule = "reading"
                             THEN Put(NoSessions, SID, SessionState([cefr |-> l], l))
                             ELSE NoSessions
          /\ vocab_sessions = IF rule = "vocabulary"
                              THEN Put(NoSessions, SID, VocabSessionState(IndexOf(l), VocabTotal))
                              ELSE NoSessions
          /\ speak_sessions = IF rule = "speaking"
                              THEN Put(NoSessions, SID, SpeakSessionState(IndexOf(l), SpeakTotal))
                              ELSE NoSessions
    /\ tasks = {}
    /\ next_uuid = 1
    /\ last = NoResponse
    /\ env = NoEnv

\* the pairwise rule of listening
RulePair ==
    /\ Registered(listen_sessions, SID)
    /\ \E pair \in [1..2 -> BOOLEAN] :
          LET state == listen_sessions[SID]
              new == _adjust_after_pair(state, pair)
              mid == _adjust_after_pair([state EXCEPT !.current_cefr = MidLevel], pair)
          IN /\ listen_sessions' = Put(listen_sessions, SID, new)
             /\ last' = RuleStep("pairwise", pair, IndexOf(state.current_cefr),
                                 IndexOf(new.current_cefr), IndexOf(mid.current_cefr))
    /\ UNCHANGED <<skill, read_sessions, vocab_sessions, speak_sessions, tasks, next_uuid, env>>

\* the streak rule of vocabulary
RuleStreak ==
    /\ Registered(vocab_sessions, SID)
    /\ \E was_correct \in BOOLEAN :
          LET state == vocab_sessions[SID]
              new == _adjust_level(state, was_correct)
              mid == _adjust_level([state EXCEPT !.level_index = IndexOf(MidLevel)], was_correct)
          IN /\ vocab_sessions' = Put(vocab_sessions, SID, new)
             /\ last' = RuleStep("streak", was_correct, state.level_index, new.level_index, mid.level_index)
    /\ UNCHANGED <<skill, listen_sessions, read_sessions, speak_sessions, tasks, next_uuid, env>>

\* the direct-grade rule of speaking
RuleDirect ==
    /\ Registered(speak_sessions, SID)
    /\ \E grade \in Grades :
          LET state == speak_sessions[SID]
              new == _adjust_level_direct(state, grade)
              mid == _adjust_level_direct([state EXCEPT !.level_index = IndexOf(MidLevel)], grade)
          IN /\ speak_sessions' = Put(speak_sessions, SID, new)
             /\ last' = RuleStep("direct", grade, state.level_index, new.level_index, mid.level_index)
    /\ UNCHANGED <<skill, listen_sessions, read_sessions, vocab_sessions, tasks, next_uuid, env>>

\* the block rule of reading, for a passage with c correct answers
RuleBlock ==
    /\ Registered(read_sessions, SID)
    /\ \E c \in 0..ReadQuestionsPerPassage :
          LET state == read_sessions[SID]
              new == read_passage_level(state.current_cefr, c)
              mid == read_passage_level(MidLevel, c)
          IN /\ read_sessions' = Put(read_sessions, SID,
                                     [state EXCEPT !.current_cefr = new,
                                                   !.cambridge_level = CAMBRIDGE_BY_CEFR[new]])
             /\ last' = RuleStep("block", c, IndexOf(state.current_cefr), IndexOf(new), IndexOf(mid))
    /\ UNCHANGED <<skill, listen_sessions, vocab_sessions, speak_sessions, tasks, next_uuid, env>>

\* the outcomes windows the final rule of reading is tried on
OutcomeWindows == {[i \in 1..n |-> i <= k] : n \in 0..ReadWindow, k \in 0..ReadWindow}

\* the final rule of reading
RuleFinal ==
    /\ Registered(read_sessions, SID)
    /\ \E outcomes \in OutcomeWindows :
          LET state == read_sessions[SID]
              new == _adjust_final_by_last_five(state.current_cefr, outcomes)
              mid == _adjust_final_by_last_five(MidLevel, outcomes)
          IN /\ read_sessions' = Put(read_sessions, SID,
                                     [state EXCEPT !.current_cefr = new,
                                                   !.cambridge_level = CAMBRIDGE_BY_CEFR[new]])
             /\ last' = RuleStep("final", outcomes, IndexOf(state.current_cefr), IndexOf(new), IndexOf(mid))
    /\ UNCHANGED <<skill, listen_sessions, vocab_sessions, speak_sessions, tasks, next_uuid, env>>

NextRules ==
    \/ RulePair
    \/ RuleStreak
    \/ RuleDirect
    \/ RuleBlock
    \/ RuleFinal

SpecRules == InitRules /\ [][NextRules]_vars

(***************************************************************************)
(* The streak rules on their own: the rule of vocabulary and the rule      *)
(* read.py defines, applied to a session at any level with every sequence  *)
(* of outcomes.                                                            *)
(***************************************************************************)
\* the streak rule of read.py
RuleDifficulty ==
    /\ Registered(read_sessions, SID)
    /\ \E was_correct \in BOOLEAN :
          LET state == read_sessions[SID]
              new == _step_difficulty(state, was_correct)
              mid == _step_difficulty([state EXCEPT !.current_cefr = MidLevel], was_correct)
          IN /\ read_sessions' = Put(read_sessions, SID, new)
             /\ last' = RuleStep("difficulty", was_correct, IndexOf(state.current_cefr),
                                 IndexOf(new.current_cefr), IndexOf(mid.current_cefr))
    /\ UNCHANGED <<skill, listen_sessions, vocab_sessions, speak_sessions, tasks, next_uuid, env>>

NextStreaks ==
    \/ RuleStreak
    \/ RuleDifficulty

SpecStreaks == InitRules /\ [][NextStreaks]_vars

(***************************************************************************)
(* A reading session on its own: started at any level, every question      *)
(* answered in turn with a right or a wrong choice, the generator always   *)
(* answering well.                                                         *)
(***************************************************************************)
\* POST /read/start with each of the six levels
ReadingStart ==
    /\ skill = "none"
    /\ \E start_level \in LevelSet :
          LET r == read_start_session(read_sessions, start_level, GoodReply, GoodReply, next_uuid)
          IN /\ skill' = "reading"
             /\ read_sessions' = r.sessions
             /\ next_uuid' = next_uuid + r.used
             /\ last' = r.resp
    /\ UNCHANGED env
    /\ OthersUnchangedRead

\* POST /read/submit for the question last shown, with its key or another choice
ReadingAnswer ==
    /\ skill = "reading"
    /\ ReadLive(SID)
    /\ LET state == read_sessions[SID]
           last_q == state.questions[Len(state.questions)]
       IN \E choice_index \in {last_q.correct_index, (last_q.correct_index + 1) % 4} :
             LET r == read_submit_answer(read_sessions, SID, last_q.id, choice_index,
                                         GoodReply, GoodReply, next_uuid)
             IN /\ read_sessions' = r.sessions
                /\ next_uuid' = next_uuid + r.used
                /\ last' = r.resp
    /\ UNCHANGED <<skill, env>>
    /\ OthersUnchangedRead

NextReading ==
    \/ ReadingStart
    \/ ReadingAnswer

SpecReading == Init /\ [][NextReading]_vars

(***************************************************************************)
(* A speaking session on its own: started at any level, the pending item   *)
(* answered with any transcript and any reply of the evaluator, the item   *)
(* generator always answering well.  The response is kept with the request *)
(* it answers.                                                             *)
(***************************************************************************)
\* POST /speaking/start with each of the six levels
SpeakingStart ==
    /\ skill = "none"
    /\ \E start_level \in LevelSet :
          LET r == speaking_start(speak_sessions, start_level, GoodReply, next_uuid)
          IN /\ skill' = "speaking"
             /\ speak_sessions' = r.sessions
             /\ next_uuid' = next_uuid + r.used
             /\ last' = r.resp
    /\ UNCHANGED env
    /\ OthersUnchangedSpeak

\* POST /speaking/answer for the pending item
SpeakingAnswer ==
    /\ skill = "speaking"
    /\ Registered(speak_sessions, SID)
    /\ SpeakPending(speak_sessions[SID])
    /\ Len(speak_sessions[SID].history) < MaxSpoken
    /\ LET state == speak_sessions[SID]
           item == state.items[Len(state.items)]
       IN \E transcript \in Transcripts : \E reply \in EvalReplies :
             LET r == speaking_answer(speak_sessions, SID, item.id, transcript, reply)
             IN /\ speak_sessions' = r.sessions
                /\ last' = [op |-> "answer", sid |-> SID, status |-> r.resp.status,
                            finished |-> r.resp.finished, attempts |-> r.resp.attempts,
                            item |-> item, transcript |-> transcript, evaluation |-> reply]
    /\ UNCHANGED <<skill, next_uuid, env>>
    /\ OthersUnchangedSpeak

\* POST /speaking/next once the pending item has its answer
SpeakingNext ==
    /\ skill = "speaking"
    /\ Registered(speak_sessions, SID)
    /\ ~SpeakPending(speak_sessions[SID])
    /\ LET r == speaking_next_item(speak_sessions, SID, GoodReply, next_uuid)
       IN /\ speak_sessions' = r.sessions
          /\ next_uuid' = next_uuid + r.used
          /\ last' = r.resp
    /\ UNCHANGED <<skill, env>>
    /\ OthersUnchangedSpeak

NextSpeaking ==
    \/ SpeakingStart
    \/ SpeakingAnswer
    \/ SpeakingNext

SpecSpeaking == Init /\ [][NextSpeaking]_vars

(***************************************************************************)
(* The text of a generator reply, as the parsers see it: a sequence of      *)
(* tokens, each an opening brace, a closing brace, the fence ```json       *)
(* (fence_json), a bare fence ``` (fence), or a stretch of prose.  A text  *)
(* is JSON when it is one object: braces only, nested, closed by its last  *)
(* token.                                                                  *)
(***************************************************************************)
Tokens == {"{", "}", "fence_json", "fence", "prose"}

Texts == UNION {[1..n -> Tokens] : n \in 0..MaxText}

\* the nesting depth after the first n tokens, -1 once a brace closes nothing
\* or a token is no brace
RECURSIVE DepthAfter(_, _)
DepthAfter(text, n) ==
    IF n = 0 THEN 0
    ELSE LET before == DepthAfter(text, n - 1)
         IN IF before < 0 \/ (before = 0 /\ n > 1) THEN -1
            ELSE IF text[n] = "{" THEN before + 1
            ELSE IF text[n] = "}" THEN before - 1
            ELSE -1

\* json.loads(text) returns
json_loads(text) == Len(text) > 0 /\ DepthAfter(text, Len(text)) = 0

\* the positions of the tokens of a text that satisfy a test
FirstOf(text, set) == IF set = {} THEN 0 ELSE CHOOSE i \in set : \A j \in set : i <= j

LastOf(text, set) == IF set = {} THEN 0 ELSE CHOOSE i \in set : \A j \in set : i >= j

\* text.find("{"), text.rfind("}"): the position, 0 for none
FirstBrace(text) == FirstOf(text, {i \in 1..Len(text) : text[i] = "{"})

LastBrace(text) == LastOf(text, {i \in 1..Len(text) : text[i] = "}"})

\* re.search(r"```json\s*([\s\S]*?)\s*```", text): the group, from the first
\* ```json to the next fence of either kind
FencedBlock(text) ==
    LET open == FirstOf(text, {i \in 1..Len(text) : text[i] = "fence_json"})
        close == FirstOf(text, {i \in 1..Len(text) :
                                   i > open /\ text[i] \in {"fence_json", "fence"}})
    IN IF open = 0 \/ close = 0 THEN [found |-> FALSE, candidate |-> <<>>]
       ELSE [found |-> TRUE, candidate |-> SubSeq(text, open + 1, close - 1)]

\* the span from the first opening brace to the last closing brace
BraceSpan(text) ==
    IF FirstBrace(text) # 0 /\ LastBrace(text) # 0 /\ LastBrace(text) > FirstBrace(text)
    THEN [found |-> TRUE, candidate |-> SubSeq(text, FirstBrace(text), LastBrace(text))]
    ELSE [found |-> FALSE, candidate |-> <<>>]

Parsed(value) == [ok |-> TRUE, value |-> value]

NotParsed == [ok |-> FALSE, value |-> <<>>]

\* listen.py and read.py _extract_json_object
_extract_json_object(text) ==
    IF json_loads(text) THEN Parsed(text)
    ELSE IF FencedBlock(text).found /\ json_loads(FencedBlock(text).candidate)
    THEN Parsed(FencedBlock(text).candidate)
    ELSE IF BraceSpan(text).found /\ json_loads(BraceSpan(text).candidate)
    THEN Parsed(BraceSpan(text).candidate)
    ELSE NotParsed

\* vocabulary.py and speaking.py _extract_json_block: the whole text, then
\* the match of \{[\s\S]*\}
_extract_json_block(text) ==
    IF json_loads(text) THEN Parsed(text)
    ELSE IF BraceSpan(text).found /\ json_loads(BraceSpan(text).candidate)
    THEN Parsed(BraceSpan(text).candidate)
    ELSE NotParsed

(***************************************************************************)
(* The JSON values of a generator reply, as the validators see them.  A    *)
(* text field is "missing", "blank" (empty once stripped) or "text"; the   *)
(* options are a list of some length, or no list (-1); a number field is   *)
(* an integer, a string of digits, or something else.                      *)
(***************************************************************************)
IntValue(val) == [kind |-> "int", val |-> val]

DigitsValue(val) == [kind |-> "digits", val |-> val]

OtherValue == [kind |-> "other", val |-> 0]

RawItem(stimulus, question, options, correct_index) ==
    [stimulus |-> stimulus, question |-> question, options |-> options,
     correct_index |-> correct_index]

\* str(data.get(key, "")).strip()
stripped(field) == IF field = "text" THEN "text" ELSE ""

\* the item a validator accepts, with what the session keeps of it
Item(stimulus, question, options, correct_index) ==
    [stimulus |-> stimulus, question |-> question, options |-> options,
     correct_index |-> correct_index]

\* vocabulary.py _generate_question_for, lines 144-160: the checks of one item;
\* int(answer_index) reads an integer and a string of digits
vocab_item(raw) ==
    LET passage == stripped(raw.stimulus)
        question_text == stripped(raw.question)
    IN IF passage = "" \/ question_text = "" \/ raw.options = -1 \/ raw.options # 4
       THEN [ok |-> FALSE, item |-> Item("", "", 0, 0)]
       ELSE IF raw.correct_index.kind \notin {"int", "digits"}
       THEN [ok |-> FALSE, item |-> Item("", "", 0, 0)]
       ELSE IF ~(0 <= raw.correct_index.val /\ raw.correct_index.val < 4)
       THEN [ok |-> FALSE, item |-> Item("", "", 0, 0)]
       ELSE [ok |-> TRUE,
             item |-> Item(passage, question_text, raw.options, raw.correct_index.val)]

\* listen.py _llm_generate_clips, lines 290-299: the checks of one clip
listen_clip_valid(raw) ==
    /\ stripped(raw.stimulus) # ""
    /\ stripped(raw.question) # ""
    /\ raw.options # -1
    /\ raw.options = 4
    /\ raw.correct_index.kind = "int"
    /\ raw.correct_index.val >= 0
    /\ raw.correct_index.val <= 3

\* listen.py _llm_generate_clips, lines 281-283 and 305-313: what is kept of a clip
listen_clip_normed(raw) ==
    Item(stripped(raw.stimulus), stripped(raw.question), raw.options, raw.correct_index.val)

\* read.py _llm_generate_passage_questions, lines 182-185: the checks of one
\* question; the text is only required to be a string
read_question_valid(raw) ==
    /\ raw.question # "missing"
    /\ raw.options # -1
    /\ raw.options = 4
    /\ raw.correct_index.kind = "int"
    /\ raw.correct_index.val >= 0
    /\ raw.correct_index.val <= 3

\* read.py _llm_generate_passage_questions, lines 187-198: what is kept of a
\* question; its stimulus is the passage of the session
read_question_normed(raw) ==
    Item("text", stripped(raw.question), raw.options, raw.correct_index.val)

\* the first item of a batch that fails its check, or 0; valid[i] tells
\* whether item i passes
FirstBad(valid) ==
    LET bad == {i \in 1..Len(valid) : ~valid[i]}
    IN IF bad = {} THEN 0 ELSE CHOOSE i \in bad : \A j \in bad : i <= j

\* a reply of clips of which the items beyond those asked for are dropped
ListenReplyTruncated(clips) ==
    [error |-> FALSE, parses |-> TRUE,
     delta |-> Min(0, Len(clips) - ListenBatch),
     bad |-> FirstBad([i \in 1..Len(clips) |-> listen_clip_valid(clips[i])])]

\* listen.py _llm_generate_clips, lines 273-299: the reply that carries the
\* clips, as the generator of clips reads it
ListenReply(clips) ==
    [error |-> FALSE, parses |-> TRUE,
     delta |-> Len(clips) - ListenBatch,
     bad |-> FirstBad([i \in 1..Len(clips) |-> listen_clip_valid(clips[i])])]

\* read.py _llm_generate_passage_questions, lines 173-185: the reply that
\* carries the questions, as the generator of questions reads it
ReadReply(data) ==
    [error |-> FALSE, parses |-> TRUE,
     delta |-> Len(data) - ReadQuestionsPerPassage,
     bad |-> FirstBad([i \in 1..Len(data) |-> read_question_valid(data[i])])]

\* a validator reply: the call or the parse fails, or the reply carries
\* correct_indices, a list or not
ValidatorReply(fails, is_list, indices) ==
    [fails |-> fails, is_list |-> is_list, indices |-> indices]

\* _validate_unique_answer, lines 238-250: the entries that are an index of
\* an option, as a set
normalized(indices, options) ==
    {indices[i].val : i \in {k \in 1..Len(indices) :
                               /\ indices[k].kind \in {"int", "digits"}
                               /\ 0 <= indices[k].val
                               /\ indices[k].val < options}}

\* _validate_unique_answer
_validate_unique_answer(question, reply) ==
    IF reply.fails THEN FALSE
    ELSE IF ~reply.is_list THEN FALSE
    ELSE IF Cardinality(normalized(reply.indices, question.options)) # 1 THEN FALSE
    ELSE normalized(reply.indices, question.options) = {question.correct_index}

\* _generate_question_for, lines 132-185: what one attempt meets, given the
\* item of the generator's reply and the reply of the validator
vocab_attempt_outcome(raw, reply) ==
    IF ~vocab_item(raw).ok THEN "invalid"
    ELSE IF ~_validate_unique_answer(vocab_item(raw).item, reply) THEN "not_unique"
    ELSE "ok"

(***************************************************************************)
(* The content functions on their own: an input is drawn, and the function *)
(* it is meant for is applied to it once.                                  *)
(***************************************************************************)
ContentInput(kind, input) == [op |-> "input", kind |-> kind, input |-> input]

ContentResult(kind, input, result) ==
    [op |-> "result", kind |-> kind, input |-> input, result |-> result]

\* a well-formed item with the key 1, and the items with one field at fault
GoodRaw == RawItem("text", "text", 4, IntValue(1))

RawItems ==
    {GoodRaw, RawItem("text", "text", 4, DigitsValue(2))}
    \cup {RawItem(x, "text", 4, IntValue(1)) : x \in {"missing", "blank"}}
    \cup {RawItem("text", x, 4, IntValue(1)) : x \in {"missing", "blank"}}
    \cup {RawItem("text", "text", n, IntValue(1)) : n \in {-1, 3, 5}}
    \cup {RawItem("text", "text", 4, x) : x \in {IntValue(-1), IntValue(4), OtherValue}}

\* the entries a validator may list, and the replies it may give
IndexEntries ==
    {IntValue(-1), IntValue(0), IntValue(1), IntValue(4), DigitsValue(1), OtherValue}

ValidatorReplies ==
    {ValidatorReply(TRUE, FALSE, <<>>), ValidatorReply(FALSE, FALSE, <<>>)}
    \cup {ValidatorReply(FALSE, TRUE, indices) :
             indices \in UNION {[1..n -> IndexEntries] : n \in 0..MaxIndices}}

\* the batches of well-formed items one short and one long, and the batches
\* of the count asked for with any item in one place
Batches(count) ==
    {[i \in 1..n |-> GoodRaw] : n \in {count - 1, count, count + 1}}
    \cup {[i \in 1..count |-> IF i = k THEN raw ELSE GoodRaw] :
             k \in 1..count, raw \in RawItems}

ContentInputs ==
    {ContentInput(kind, text) : kind \in {"object", "block"}, text \in Texts}
    \cup {ContentInput("clips", clips) : clips \in Batches(ListenBatch)}
    \cup {ContentInput("questions", data) : data \in Batches(ReadQuestionsPerPassage)}
    \cup {ContentInput("vocabulary", [raw |-> raw, reply |-> reply]) :
             raw \in RawItems, reply \in ValidatorReplies}

InitContent ==
    /\ skill = "content"
    /\ listen_sessions = NoSessions
    /\ read_sessions = NoSessions
    /\ vocab_sessions = NoSessions
    /\ speak_sessions = NoSessions
    /\ tasks = {}
    /\ next_uuid = 1
    /\ last \in ContentInputs
    /\ env = NoEnv

ContentFrame ==
    UNCHANGED <<skill, listen_sessions, read_sessions, vocab_sessions, speak_sessions,
                tasks, next_uuid, env>>

\* a reply text goes through the parser of listening and reading
ParseObject ==
    /\ last.op = "input"
    /\ last.kind = "object"
    /\ last' = ContentResult("object", last.input, _extract_json_object(last.input))
    /\ ContentFrame

\* a reply text goes through the parser of vocabulary and speaking
ParseBlock ==
    /\ last.op = "input"
    /\ last.kind = "block"
    /\ last' = ContentResult("block", last.input, _extract_json_block(last.input))
    /\ ContentFrame

\* the vocabulary item factory with a generator and a validator that give
\* the same replies in every attempt
VocabFactory ==
    /\ last.op = "input"
    /\ last.kind = "vocabulary"
    /\ LET outcome == vocab_attempt_outcome(last.input.raw, last.input.reply)
           gen == _generate_question_for(0, [i \in 1..VocabAttempts |-> outcome], next_uuid)
       IN last' = ContentResult("vocabulary", last.input,
                                [outcome |-> outcome, ok |-> gen.ok, status |-> gen.status,
                                 attempts |-> gen.attempts,
                                 item |-> vocab_item(last.input.raw).item])
    /\ ContentFrame

\* a listening session is started and the generator replies with the clips
GenerateClips ==
    /\ last.op = "input"
    /\ last.kind = "clips"
    /\ LET r == listen_start_session(listen_sessions, ListenReply(last.input), next_uuid)
       IN /\ listen_sessions' = r.sessions
          /\ next_uuid' = next_uuid + r.used
          /\ last' = ContentResult("clips", last.input,
                        [status |-> r.resp.status,
                         items |-> IF r.resp.status = 200
                                   THEN [i \in 1..Len(last.input) |->
                                            listen_clip_normed(last.input[i])]
                                   ELSE <<>>])
    /\ UNCHANGED <<skill, read_sessions, vocab_sessions, speak_sessions, tasks, env>>

\* a reading session is started; the generator replies with a passage and
\* then with the questions
GenerateQuestions ==
    /\ last.op = "input"
    /\ last.kind = "questions"
    /\ LET r == read_start_session(read_sessions, "B1", GoodReply, ReadReply(last.input),
                                   next_uuid)
       IN /\ read_sessions' = r.sessions
          /\ next_uuid' = next_uuid + r.used
          /\ last' = ContentResult("questions", last.input,
                        [status |-> r.resp.status,
                         items |-> IF r.resp.status = 200
                                   THEN [i \in 1..Len(last.input) |->
                                            read_question_normed(last.input[i])]
                                   ELSE <<>>])
    /\ UNCHANGED <<skill, listen_sessions, vocab_sessions, speak_sessions, tasks, env>>

NextContent ==
    \/ ParseObject
    \/ ParseBlock
    \/ VocabFactory
    \/ GenerateClips
    \/ GenerateQuestions

SpecContent == InitContent /\ [][NextContent]_vars

(***************************************************************************)
(* The loop of attempts of the vocabulary item factory on its own: each    *)
(* of the four attempts may meet any outcome, and the loop is run once.    *)
(***************************************************************************)
\* what the attempts of one call meet, attempt by attempt
FactoryScripts == [1..VocabAttempts -> RetriedOutcomes \cup FinalOutcomes]

InitFactory ==
    /\ skill = "content"
    /\ listen_sessions = NoSessions
    /\ read_sessions = NoSessions
    /\ vocab_sessions = NoSessions
    /\ speak_sessions = NoSessions
    /\ tasks = {}
    /\ next_uuid = 1
    /\ last \in {ContentInput("factory", script) : script \in FactoryScripts}
    /\ env = NoEnv

\* _generate_question_for is called once
FactoryAttempts ==
    /\ last.op = "input"
    /\ last.kind = "factory"
    /\ \E gen \in {_generate_question_for(0, last.input, next_uuid)} :
          last' = ContentResult("factory", last.input,
                                [ok |-> gen.ok, status |-> gen.status, attempts |-> gen.attempts])
    /\ ContentFrame

SpecFactory == InitFactory /\ [][FactoryAttempts]_vars

(***************************************************************************)
(* A listening session whose client may send a submission while an earlier *)
(* one is still waiting for its next batch.  Each submission answers the   *)
(* clips of the batch the client was last shown, once each.                *)
(***************************************************************************)
\* the batch of the latest response that showed clips
ListenShown(state) ==
    SubSeq(state.clip_lookup, Max(1, Len(state.clip_lookup) - ListenBatch + 1),
           Len(state.clip_lookup))

\* the requests that answer every clip of the batch once, right or wrong
ListenPlainRequests(clips) ==
    {answers \in [1..Len(clips) -> ListenAnswerInputs(clips)] :
        ListenConforming(clips, answers)}

\* POST /listen/session/start
ListenRaceStart ==
    /\ skill = "none"
    /\ LET r == listen_start_session(listen_sessions, GoodReply, next_uuid)
       IN /\ skill' = "listening"
          /\ listen_sessions' = r.sessions
          /\ next_uuid' = next_uuid + r.used
          /\ last' = r.resp
    /\ UNCHANGED <<env, read_sessions, vocab_sessions, speak_sessions, tasks>>

\* POST /listen/session/submit arrives and runs up to its await, or to its end
ListenRaceSubmit ==
    /\ skill = "listening"
    /\ Cardinality(tasks) < MaxInFlight
    /\ \E answers \in ListenPlainRequests(ListenShown(listen_sessions[SID])) :
          LET r == listen_submit_begin(listen_sessions, SID, answers)
              req == CHOOSE n \in 1..MaxInFlight : \A t \in tasks : t.req # n
          IN /\ listen_sessions' = r.sessions
             /\ tasks' = IF r.suspended
                         THEN tasks \cup {ListenCall(req, SID, r.sessions[SID], answers)}
                         ELSE tasks
             /\ last' = IF r.suspended THEN NoResponse ELSE r.resp
    /\ UNCHANGED <<skill, env, next_uuid, read_sessions, vocab_sessions, speak_sessions>>

\* the generator call of a suspended submission returns, and the submission
\* runs to its end
ListenRaceResume ==
    /\ skill = "listening"
    /\ \E call \in tasks : \E reply \in RepliesAllowed(TRUE) :
          LET r == listen_submit_end(listen_sessions, call, reply, next_uuid)
          IN /\ listen_sessions' = r.sessions
             /\ tasks' = tasks \ {call}
             /\ next_uuid' = next_uuid + r.used
             /\ last' = r.resp
             /\ env' = EnvWithFault(~ValidReply(reply), 0, FaultOf(reply))
    /\ UNCHANGED <<skill, read_sessions, vocab_sessions, speak_sessions>>

NextListenRace ==
    \/ ListenRaceStart
    \/ ListenRaceSubmit
    \/ ListenRaceResume

SpecListenRace == Init /\ [][NextListenRace]_vars

(***************************************************************************)
(* The summaries.  A listening session answered batch by batch to its end, *)
(* whose last response carries the final summary, and a reading session    *)
(* answered to its end, whose summary is asked for at any time.  The       *)
(* generator always answers well; the words and structures it names as the *)
(* targets of a clip stand as numbers.                                     *)
(***************************************************************************)
\* the targets the generator names for the clip id: lists with a repeated
\* value, with values of the next clip, and now and then a long list
GeneratedVocab(id) ==
    IF id % 5 = 0 THEN [k \in 1..12 |-> 100 * id + k]
    ELSE <<3 * id, 3 * id + 1, 3 * id + 1, 3 * id + 3>>

GeneratedStructures(id) ==
    IF id % 5 = 0 THEN [k \in 1..7 |-> 100 * id + k]
    ELSE <<2 * id, 2 * id + 1, 2 * id + 2>>

\* python: values[:n]
Take(values, n) == SubSeq(values, 1, Min(n, Len(values)))

\* _llm_generate_clips, lines 317-320: the targets kept with a clip
targets(clip) ==
    [target_vocab |-> Take(GeneratedVocab(clip.id), 10),
     target_structures |-> Take(GeneratedStructures(clip.id), 6)]

\* python: for v in values: if v not in agg: agg.append(v)
RECURSIVE append_unseen(_, _)
append_unseen(agg, values) ==
    IF values = <<>> THEN agg
    ELSE LET seen == \E i \in 1..Len(agg) : agg[i] = Head(values)
         IN IF seen
            THEN append_unseen(agg, Tail(values))
            ELSE append_unseen(Append(agg, Head(values)), Tail(values))

\* submit_answers, lines 562-571: the loop over state.clip_lookup.values()
RECURSIVE aggregate_targets(_, _, _)
aggregate_targets(clips, agg_vocab, agg_structs) ==
    IF clips = <<>> THEN [agg_vocab |-> agg_vocab, agg_structs |-> agg_structs]
    ELSE aggregate_targets(Tail(clips),
                           append_unseen(agg_vocab, targets(Head(clips)).target_vocab),
                           append_unseen(agg_structs, targets(Head(clips)).target_structures))

\* _map_band_to_exam
_map_band_to_exam(band) ==
    IF band \in {"A1", "A2"} THEN "KET"
    ELSE IF band = "B1" THEN "PET"
    ELSE "FCE"

\* the summary made of the clips on show only
listen_final_summary_of_batch(state) ==
    LET correct == CountTrue(state.history)
        agg == aggregate_targets(state.clips, <<>>, <<>>)
    IN [correct |-> correct,
        incorrect |-> Max(0, Len(state.history) - correct),
        total |-> state.total,
        final_level |-> state.current_cefr,
        exam |-> _map_band_to_exam(state.current_cefr),
        target_vocab |-> Take(agg.agg_vocab, 20),
        target_structures |-> Take(agg.agg_structs, 12),
        per_item |-> state.answer_log]

\* submit_answers, lines 557-589: the final summary
listen_final_summary(state) ==
    LET correct == CountTrue(state.history)
        agg == aggregate_targets(state.clip_lookup, <<>>, <<>>)
    IN [correct |-> correct,
        incorrect |-> Max(0, Len(state.history) - correct),
        total |-> state.total,
        final_level |-> state.current_cefr,
        exam |-> _map_band_to_exam(state.current_cefr),
        target_vocab |-> Take(agg.agg_vocab, 20),
        target_structures |-> Take(agg.agg_structs, 12),
        per_item |-> state.answer_log]

\* submit_answers, the payload of its response: the final summary, made
\* once the answers are recorded and before the session is marked as ended
listen_submit_payload(sessions, sid, answers) ==
    LET looped == listen_answer_loop(sessions[sid], sessions[sid].clips, answers, 1)
    IN IF looped.status = 200 /\ ~(looped.state.asked < looped.state.total)
       THEN listen_final_summary(looped.state)
       ELSE [finished |-> FALSE]

\* get_summary that keeps the level it reports
get_summary_keeping(sessions, sid) ==
    LET state == sessions[sid]
        end_cefr == _adjust_final_by_last_five(state.current_cefr, state.last_outcomes)
    IN [sessions |-> Put(sessions, sid, [state EXCEPT !.current_cefr = end_cefr]),
        summary |-> [finished |-> state.ended,
                     total |-> state.max_questions,
                     asked |-> state.num_asked,
                     correct |-> state.correct_count,
                     incorrect |-> state.incorrect_count,
                     start_cefr |-> state.start_cefr,
                     end_cefr |-> end_cefr,
                     cambridge_level |-> CAMBRIDGE_BY_CEFR[end_cefr]]]

\* get_summary, lines 494-509, of a session that is registered
read_get_summary(sessions, sid) ==
    LET state == sessions[sid]
        end_cefr == get_summary(sessions, sid)
    IN [sessions |-> sessions,
        summary |-> [finished |-> state.ended,
                     total |-> state.max_questions,
                     asked |-> state.num_asked,
                     correct |-> state.correct_count,
                     incorrect |-> state.incorrect_count,
                     start_cefr |-> state.start_cefr,
                     end_cefr |-> end_cefr,
                     cambridge_level |-> CAMBRIDGE_BY_CEFR[end_cefr]]]

\* POST /listen/session/start
ListeningStart ==
    /\ skill = "none"
    /\ LET r == listen_start_session(listen_sessions, GoodReply, next_uuid)
       IN /\ skill' = "listening"
          /\ listen_sessions' = r.sessions
          /\ next_uuid' = next_uuid + r.used
          /\ last' = r.resp
    /\ UNCHANGED env
    /\ OthersUnchangedListen

\* POST /listen/session/submit with an answer, right or wrong, for each clip
\* on show
ListeningSubmit ==
    /\ skill = "listening"
    /\ Registered(listen_sessions, SID)
    /\ ~listen_sessions[SID].ended
    /\ \E answers \in ListenPlainRequests(listen_sessions[SID].clips) :
          LET r == listen_submit_answers(listen_sessions, SID, answers, GoodReply, next_uuid)
          IN /\ listen_sessions' = r.sessions
             /\ next_uuid' = next_uuid + r.used
             /\ last' = [op |-> "submit", sid |-> SID, status |-> r.resp.status,
                         finished |-> r.resp.finished, attempts |-> r.resp.attempts,
                         summary |-> listen_submit_payload(listen_sessions, SID, answers)]
    /\ UNCHANGED <<skill, env>>
    /\ OthersUnchangedListen

\* GET /read/summary
ReadingSummary ==
    /\ skill = "reading"
    /\ Registered(read_sessions, SID)
    /\ LET r == read_get_summary(read_sessions, SID)
       IN /\ read_sessions' = r.sessions
          /\ last' = [op |-> "summary", sid |-> SID, status |-> 200,
                      finished |-> r.summary.finished, attempts |-> 0,
                      summary |-> r.summary]
    /\ UNCHANGED <<skill, next_uuid, env>>
    /\ OthersUnchangedRead

NextSummary ==
    \/ ListeningStart
    \/ ListeningSubmit
    \/ ReadingStart
    \/ ReadingAnswer
    \/ ReadingSummary

SpecSummary == Init /\ [][NextSummary]_vars

(***************************************************************************)
(* A session of any skill with a generator and an evaluator that always    *)
(* answer well, and a client that answers every item it is shown once and  *)
(* then asks for the next one where the skill has a request for it.  The   *)
(* client keeps going: a request that can be made is made.                 *)
(***************************************************************************)
\* an item was just shown, and it is the client's turn to answer it
ItemShown == last.op \in {"start", "next"} /\ last.status = 200

\* an answer was just sent, and the session did not finish with it
AnswerSent == last.op = "answer" /\ ~last.finished

\* the evaluator's replies with a grade and a level
LiveEvalReplies ==
    {[fails |-> FALSE, grade |-> "better", estimated_level |-> "C2"],
     [fails |-> FALSE, grade |-> "worse", estimated_level |-> "A1"]}

\* the transcript of an answer: nothing, or some speech
LiveTranscripts == {[empty |-> TRUE, heuristic |-> "A1"], [empty |-> FALSE, heuristic |-> "B1"]}

\* POST /listen/session/start
LiveListenStart ==
    /\ skill = "none"
    /\ \E r \in {listen_start_session(listen_sessions, GoodReply, next_uuid)} :
          /\ skill' = "listening"
          /\ listen_sessions' = r.sessions
          /\ next_uuid' = next_uuid + r.used
          /\ last' = r.resp
    /\ UNCHANGED env
    /\ OthersUnchangedListen

\* POST /listen/session/submit with one answer for each clip on show
LiveListenSubmit ==
    /\ skill = "listening"
    /\ Registered(listen_sessions, SID)
    /\ ~listen_sessions[SID].ended
    /\ \E answers \in ListenPlainRequests(listen_sessions[SID].clips) :
          /\ env.wrong + ListenWrong(listen_sessions[SID].clips, answers) <= MaxWrong
          /\ \E r \in {listen_submit_answers(listen_sessions, SID, answers, GoodReply, next_uuid)} :
                /\ listen_sessions' = r.sessions
                /\ next_uuid' = next_uuid + r.used
                /\ last' = r.resp
          /\ env' = [env EXCEPT !.wrong = @ + ListenWrong(listen_sessions[SID].clips, answers)]
    /\ UNCHANGED skill
    /\ OthersUnchangedListen

\* POST /read/start
LiveReadStart ==
    /\ skill = "none"
    /\ \E r \in {read_start_session(read_sessions, "", GoodReply, GoodReply, next_uuid)} :
          /\ skill' = "reading"
          /\ read_sessions' = r.sessions
          /\ next_uuid' = next_uuid + r.used
          /\ last' = r.resp
    /\ UNCHANGED env
    /\ OthersUnchangedRead

\* POST /read/submit for the question last shown, right or wrong
LiveReadAnswer ==
    /\ skill = "reading"
    /\ ReadLive(SID)
    /\ \E wrong \in {0, 1} :
          /\ env.wrong + wrong <= MaxWrong
          /\ \E r \in {LET state == read_sessions[SID]
                          last_q == state.questions[Len(state.questions)]
                      IN read_submit_answer(read_sessions, SID, last_q.id,
                                            (last_q.correct_index + wrong) % 4,
                                            GoodReply, GoodReply, next_uuid)} :
                /\ read_sessions' = r.sessions
                /\ next_uuid' = next_uuid + r.used
                /\ last' = r.resp
          /\ env' = [env EXCEPT !.wrong = @ + wrong]
    /\ UNCHANGED skill
    /\ OthersUnchangedRead

\* POST /vocabulary/start
LiveVocabStart ==
    /\ skill = "none"
    /\ \E r \in {vocabulary_start(vocab_sessions, "", GoodScript, next_uuid)} :
          /\ skill' = "vocabulary"
          /\ vocab_sessions' = r.sessions
          /\ tasks' = r.spawned
          /\ next_uuid' = next_uuid + r.used
          /\ last' = r.resp
    /\ UNCHANGED env
    /\ OthersUnchangedVocab

\* POST /vocabulary/answer for the question just shown, right or wrong
LiveVocabAnswer ==
    /\ skill = "vocabulary"
    /\ ItemShown
    /\ \E wrong \in {0, 1} :
          /\ env.wrong + wrong <= MaxWrong
          /\ \E r \in {LET state == vocab_sessions[SID]
                          q == state.questions[Len(state.questions)]
                      IN vocabulary_answer(vocab_sessions, SID, q.id,
                                           (q.answer_index + wrong) % 4)} :
                /\ vocab_sessions' = r.sessions
                /\ tasks' = tasks \cup r.spawned
                /\ last' = r.resp
          /\ env' = [env EXCEPT !.wrong = @ + wrong]
    /\ UNCHANGED <<skill, next_uuid>>
    /\ OthersUnchangedVocab

\* POST /vocabulary/next_question after an answer
LiveVocabNext ==
    /\ skill = "vocabulary"
    /\ AnswerSent
    /\ \E r \in {vocabulary_next_question(vocab_sessions, SID, GoodScript, next_uuid)} :
          /\ vocab_sessions' = r.sessions
          /\ tasks' = tasks \cup r.spawned
          /\ next_uuid' = next_uuid + r.used
          /\ last' = r.resp
    /\ UNCHANGED <<skill, env>>
    /\ OthersUnchangedVocab

\* POST /speaking/start
LiveSpeakStart ==
    /\ skill = "none"
    /\ \E r \in {speaking_start(speak_sessions, "", GoodReply, next_uuid)} :
          /\ skill' = "speaking"
          /\ speak_sessions' = r.sessions
          /\ next_uuid' = next_uuid + r.used
          /\ last' = r.resp
    /\ UNCHANGED env
    /\ OthersUnchangedSpeak

\* POST /speaking/answer for the item just shown
LiveSpeakAnswer ==
    /\ skill = "speaking"
    /\ ItemShown
    /\ \E transcript \in LiveTranscripts : \E reply \in LiveEvalReplies :
          \E r \in {LET state == speak_sessions[SID]
                       item == state.items[Len(state.items)]
                   IN speaking_answer(speak_sessions, SID, item.id, transcript, reply)} :
             /\ speak_sessions' = r.sessions
             /\ last' = r.resp
    /\ UNCHANGED <<skill, next_uuid, env>>
    /\ OthersUnchangedSpeak

\* POST /speaking/next after an answer
LiveSpeakNext ==
    /\ skill = "speaking"
    /\ AnswerSent
    /\ \E r \in {speaking_next_item(speak_sessions, SID, GoodReply, next_uuid)} :
          /\ speak_sessions' = r.sessions
          /\ next_uuid' = next_uuid + r.used
          /\ last' = r.resp
    /\ UNCHANGED <<skill, env>>
    /\ OthersUnchangedSpeak

NextLive ==
    \/ LiveListenStart
    \/ LiveListenSubmit
    \/ LiveReadStart
    \/ LiveReadAnswer
    \/ LiveVocabStart
    \/ LiveVocabAnswer
    \/ LiveVocabNext
    \/ LiveSpeakStart
    \/ LiveSpeakAnswer
    \/ LiveSpeakNext

SpecLive == Init /\ [][NextLive]_vars /\ WF_vars(NextLive)

(***************************************************************************)
(* A vocabulary session whose requests overlap.  A next_question call that *)
(* finds the side cache empty for the level waits for the generator, and   *)
(* other requests and the jobs of the prefetch tasks run meanwhile.  The   *)
(* calls in flight are kept in tasks, next to the prefetch jobs.           *)
(***************************************************************************)
\* the jobs of a prefetch task spawned for these levels
PreloadJobs(levels) == {[call |-> "preload", level_idx |-> l, req |-> 0] : l \in levels}

\* a next_question call waiting for the question it asked the generator for
NextCall(req, level_idx) == [call |-> "next", level_idx |-> level_idx, req |-> req]

NextCalls == {t \in tasks : t.call = "next"}

\* next_question, lines 391-399 and, with a cached question, to the end: the
\* lookup under the lock; the call waits for the generator when the lookup
\* finds nothing
vocab_next_begin(sessions, sid, first_id) ==
    IF Registered(sessions, sid)
       /\ sessions[sid].question_cache[sessions[sid].level_index] = <<>>
    THEN [suspended |-> TRUE, level_idx |-> sessions[sid].level_index,
          sessions |-> sessions, resp |-> NoResponse, spawned |-> {}]
    ELSE LET r == vocabulary_next_question(sessions, sid, GoodScript, first_id)
         IN [suspended |-> FALSE, level_idx |-> 0,
             sessions |-> r.sessions, resp |-> r.resp, spawned |-> r.spawned]

\* next_question, lines 402-411: the generator has answered the call made
\* for the level the session had when the call was made
vocab_next_end(sessions, sid, level_idx, script, first_id) ==
    LET gen == _generate_question_for(level_idx, script, first_id)
    IN IF ~gen.ok
       THEN [sessions |-> sessions, resp |-> Response("next", sid, gen.status, FALSE, gen.attempts),
             used |-> 0, spawned |-> {}]
       ELSE IF ~Registered(sessions, sid)
       THEN [sessions |-> sessions, resp |-> Response("next", sid, 200, FALSE, gen.attempts),
             used |-> 1, spawned |-> {}]
       ELSE [sessions |-> Put(sessions, sid, [sessions[sid] EXCEPT !.questions = Append(@, gen.q)]),
             resp |-> Response("next", sid, 200, FALSE, gen.attempts),
             used |-> 1, spawned |-> levels_to_preload(sessions[sid].level_index)]

\* the questions shown that the history has no answer for
VocabUnanswered(state) ==
    {i \in 1..Len(state.questions) : state.questions[i].id \notin VocabAnswered(state)}

\* POST /vocabulary/start
CacheStart ==
    /\ skill = "none"
    /\ \E r \in {vocabulary_start(vocab_sessions, "", GoodScript, next_uuid)} :
          /\ skill' = "vocabulary"
          /\ vocab_sessions' = r.sessions
          /\ tasks' = PreloadJobs(r.spawned)
          /\ next_uuid' = next_uuid + r.used
          /\ last' = r.resp
    /\ UNCHANGED env
    /\ OthersUnchangedVocab

\* POST /vocabulary/answer for the oldest question shown and not yet answered
CacheAnswer ==
    /\ skill = "vocabulary"
    /\ Registered(vocab_sessions, SID)
    /\ VocabUnanswered(vocab_sessions[SID]) # {}
    /\ \E wrong \in {0, 1} :
       \E r \in {LET i == CHOOSE k \in VocabUnanswered(vocab_sessions[SID]) :
                             \A j \in VocabUnanswered(vocab_sessions[SID]) : k <= j
                     q == vocab_sessions[SID].questions[i]
                 IN vocabulary_answer(vocab_sessions, SID, q.id, (q.answer_index + wrong) % 4)} :
          /\ vocab_sessions' = r.sessions
          /\ tasks' = tasks \cup PreloadJobs(r.spawned)
          /\ last' = r.resp
    /\ UNCHANGED <<skill, next_uuid, env>>
    /\ OthersUnchangedVocab

\* POST /vocabulary/next_question arrives: it is answered from the side cache,
\* or it calls the generator and waits
CacheNext ==
    /\ skill = "vocabulary"
    /\ Cardinality(NextCalls) < MaxInFlight
    /\ \E r \in {vocab_next_begin(vocab_sessions, SID, next_uuid)} :
          LET req == CHOOSE n \in 1..MaxInFlight : \A t \in NextCalls : t.req # n
          IN /\ vocab_sessions' = r.sessions
             /\ tasks' = IF r.suspended
                         THEN tasks \cup {NextCall(req, r.level_idx)}
                         ELSE tasks \cup PreloadJobs(r.spawned)
             /\ last' = r.resp
    /\ UNCHANGED <<skill, next_uuid, env>>
    /\ OthersUnchangedVocab

\* the generator answers a waiting next_question call, which runs to its end
CacheNextResume ==
    /\ skill = "vocabulary"
    /\ next_uuid <= MaxQuestions
    /\ \E call \in NextCalls :
       \E r \in {vocab_next_end(vocab_sessions, SID, call.level_idx, GoodScript, next_uuid)} :
          /\ vocab_sessions' = r.sessions
          /\ tasks' = (tasks \ {call}) \cup PreloadJobs(r.spawned)
          /\ next_uuid' = next_uuid + r.used
          /\ last' = r.resp
    /\ UNCHANGED <<skill, env>>
    /\ OthersUnchangedVocab

\* a job of a prefetch task: a question for one of the task's levels is
\* generated and appended to the side cache under the lock
CachePreload ==
    /\ skill = "vocabulary"
    /\ Registered(vocab_sessions, SID)
    /\ next_uuid <= MaxQuestions
    /\ \E job \in tasks \ NextCalls :
       \E gen \in {_generate_question_for(job.level_idx, GoodScript, next_uuid)} :
          /\ vocab_sessions' = Put(vocab_sessions, SID,
                                   _preload_questions(vocab_sessions[SID], job.level_idx, gen.q))
          /\ next_uuid' = next_uuid + 1
          /\ last' = NoResponse
    /\ UNCHANGED <<skill, tasks, env>>
    /\ OthersUnchangedVocab

NextCache ==
    \/ CacheStart
    \/ CacheAnswer
    \/ CacheNext
    \/ CacheNextResume
    \/ CachePreload

SpecCache == Init /\ [][NextCache]_vars

(***************************************************************************)
(* What the sessions keep, in the terms the properties use.                *)
(***************************************************************************)
Ids(items) == {items[i].id : i \in 1..Len(items)}

\* the items a submission may name, and the items the session has an answer for
ListenActive(state) == IF state.ended THEN {} ELSE Ids(state.clips)
ListenAnswered(state) == {state.answer_log[i].clip_id : i \in 1..Len(state.answer_log)}

ReadAnsweredCount(state) == state.correct_count + state.incorrect_count
ReadActive(state) ==
    IF state.ended \/ state.questions = <<>> THEN {}
    ELSE {state.questions[Len(state.questions)].id}
ReadAnswered(state) ==
    {state.questions[i].id :
        i \in {k \in 1..Len(state.questions) : k <= ReadAnsweredCount(state)}}

VocabActive(state) == Ids(state.questions)
SpeakActive(state) == Ids(state.items)

Registries == <<listen_sessions, read_sessions, vocab_sessions, speak_sessions>>

\* C1: in every reachable state of every session of every skill the
\* items-asked counter is at most the session's total budget
C1_AskedAtMostTotal ==
    /\ \A sid \in DOMAIN listen_sessions :
          listen_sessions[sid].asked <= listen_sessions[sid].total
    /\ \A sid \in DOMAIN read_sessions :
          read_sessions[sid].num_asked <= read_sessions[sid].max_questions
    /\ \A sid \in DOMAIN vocab_sessions :
          vocab_sessions[sid].asked <= vocab_sessions[sid].total
    /\ \A sid \in DOMAIN speak_sessions :
          speak_sessions[sid].asked <= speak_sessions[sid].total

\* C2: the items-asked counter equals the total budget exactly when the
\* session is finished (a vocabulary or speaking session is finished when it
\* has left the registry, so one still registered is not at its budget)
C2_AskedIsTotalIffFinished ==
    /\ \A sid \in DOMAIN listen_sessions :
          (listen_sessions[sid].asked = listen_sessions[sid].total)
             <=> listen_sessions[sid].ended
    /\ \A sid \in DOMAIN read_sessions :
          (read_sessions[sid].num_asked = read_sessions[sid].max_questions)
             <=> read_sessions[sid].ended
    /\ \A sid \in DOMAIN vocab_sessions :
          vocab_sessions[sid].asked # vocab_sessions[sid].total
    /\ \A sid \in DOMAIN speak_sessions :
          speak_sessions[sid].asked # speak_sessions[sid].total

\* the session sid takes no more answers: it is finished, or not in the registry
ClosedSession(sid) ==
    \/ skill = "listening"
       /\ (Registered(listen_sessions, sid) => listen_sessions[sid].ended)
    \/ skill = "reading"
       /\ (Registered(read_sessions, sid) => read_sessions[sid].ended)
    \/ skill = "vocabulary" /\ ~Registered(vocab_sessions, sid)
    \/ skill = "speaking" /\ ~Registered(speak_sessions, sid)

\* C3: an answer submission for a session that is finished, or that is not in
\* the registry, is answered with an error and changes no session state
C3_ClosedSessionRejects ==
    [][\A sid \in SessionIds :
          (ClosedSession(sid) /\ last'.op \in SubmitOps /\ last'.sid = sid)
             => (IsError(last') /\ UNCHANGED Registries)]_vars

\* C3, reached: a finished listening session has refused a submission
C3_Witness ==
    /\ Registered(listen_sessions, SID)
    /\ listen_sessions[SID].ended
    /\ last.op \in SubmitOps
    /\ last.sid = SID
    /\ last.status = 400

\* C4: an answer is recorded only for an item of the active batch that has
\* no answer yet: a submission naming any other item, one answered in an
\* earlier turn included, is not recorded
C4_OnlyUnansweredRecorded ==
    [][/\ \A sid \in (DOMAIN listen_sessions) \cap (DOMAIN listen_sessions') :
             LET old == listen_sessions[sid]
                 new == listen_sessions'[sid]
             IN \A i \in (Len(old.answer_log) + 1)..Len(new.answer_log) :
                   new.answer_log[i].clip_id \in ListenActive(old) \ ListenAnswered(old)
       /\ \A sid \in (DOMAIN read_sessions) \cap (DOMAIN read_sessions') :
             LET old == read_sessions[sid]
                 new == read_sessions'[sid]
             IN ReadAnsweredCount(new) > ReadAnsweredCount(old)
                   => ReadActive(old) \ ReadAnswered(old) # {}
       /\ \A sid \in (DOMAIN vocab_sessions) \cap (DOMAIN vocab_sessions') :
             LET old == vocab_sessions[sid]
                 new == vocab_sessions'[sid]
             IN \A i \in (Len(old.history) + 1)..Len(new.history) :
                   new.history[i].question_id \in VocabActive(old) \ VocabAnswered(old)
       /\ \A sid \in (DOMAIN speak_sessions) \cap (DOMAIN speak_sessions') :
             LET old == speak_sessions[sid]
                 new == speak_sessions'[sid]
             IN \A i \in (Len(old.history) + 1)..Len(new.history) :
                   new.history[i].item_id \in SpeakActive(old) \ SpeakAnswered(old)
      ]_vars

\* C5: the items a submission may name are items that were shown and have no
\* answer yet: no item with an answer in the history remains submittable
C5_ActiveIsUnanswered ==
    /\ \A sid \in DOMAIN listen_sessions :
          /\ ListenActive(listen_sessions[sid]) \subseteq Ids(listen_sessions[sid].clip_lookup)
          /\ ListenActive(listen_sessions[sid]) \cap ListenAnswered(listen_sessions[sid]) = {}
    /\ \A sid \in DOMAIN read_sessions :
          ReadActive(read_sessions[sid]) \cap ReadAnswered(read_sessions[sid]) = {}
    /\ \A sid \in DOMAIN vocab_sessions :
          VocabActive(vocab_sessions[sid]) \cap VocabAnswered(vocab_sessions[sid]) = {}
    /\ \A sid \in DOMAIN speak_sessions :
          SpeakActive(speak_sessions[sid]) \cap SpeakAnswered(speak_sessions[sid]) = {}

\* C6: an answer submission whose content generation fails leaves every
\* session exactly as it was before the submission
C6_FailedGenerationChangesNothing ==
    [][(last'.op \in SubmitOps /\ last'.attempts > 0 /\ IsError(last'))
          => UNCHANGED Registries]_vars

GenerationFailed == last.attempts > 0 /\ IsError(last)

RuleOps == {"pairwise", "streak", "direct", "block", "final"}

\* the level of every session in the registries is one of the six levels
LevelsValid ==
    /\ \A sid \in DOMAIN listen_sessions : listen_sessions[sid].current_cefr \in LevelSet
    /\ \A sid \in DOMAIN read_sessions : read_sessions[sid].current_cefr \in LevelSet
    /\ \A sid \in DOMAIN vocab_sessions :
          vocab_sessions[sid].level_index \in 0..(Len(LEVELS) - 1)
    /\ \A sid \in DOMAIN speak_sessions :
          speak_sessions[sid].level_index \in 0..(Len(LEVELS) - 1)

\* C8: after every rule, from every level and for every outcome, the level is
\* one of A1..C2; an outcome that raises the level from B1 leaves C2 at C2,
\* and one that lowers it from B1 leaves A1 at A1
C8_LevelsSaturate ==
    /\ LevelsValid
    /\ last.op \in RuleOps =>
          /\ last.to \in 0..(Len(CEFR_ORDER) - 1)
          /\ (last.from = Len(CEFR_ORDER) - 1 /\ last.mid > IndexOf(MidLevel))
                => last.to = last.from
          /\ (last.from = 0 /\ last.mid < IndexOf(MidLevel)) => last.to = last.from

\* C8, reached: the pairwise rule lowered nothing at A1
C8_Witness ==
    /\ last.op = "pairwise"
    /\ last.from = 0
    /\ last.mid < IndexOf(MidLevel)
    /\ last.to = 0

\* the distance of two level indexes
Distance(a, b) == IF a > b THEN a - b ELSE b - a

\* C9: one adjustment moves the level index by at most 1 under the pairwise,
\* streak and direct-grade rules and by at most 2 under the reading block rule
C9_StepMagnitude ==
    /\ last.op \in {"pairwise", "streak", "direct"} => Distance(last.from, last.to) <= 1
    /\ last.op = "block" => Distance(last.from, last.to) <= 2

\* C9, reached: the block rule moved the level by two
C9_Witness ==
    /\ last.op = "block"
    /\ Distance(last.from, last.to) = 2

\* C10: a session becomes finished only in an answer submission, and then the
\* number of answers it has taken is its total budget
C10_FinishesAtBudget ==
    [][/\ \A sid \in DOMAIN listen_sessions' :
             (listen_sessions'[sid].ended
              /\ ~(Registered(listen_sessions, sid) /\ listen_sessions[sid].ended))
                => /\ last'.op \in SubmitOps
                   /\ Len(listen_sessions'[sid].answer_log) = listen_sessions'[sid].total
       /\ \A sid \in DOMAIN read_sessions' :
             (read_sessions'[sid].ended
              /\ ~(Registered(read_sessions, sid) /\ read_sessions[sid].ended))
                => /\ last'.op \in SubmitOps
                   /\ ReadAnsweredCount(read_sessions'[sid]) = read_sessions'[sid].max_questions
       /\ \A sid \in (DOMAIN vocab_sessions) \ (DOMAIN vocab_sessions') :
             /\ last'.op \in SubmitOps
             /\ Len(vocab_sessions[sid].history) + 1 = vocab_sessions[sid].total
       /\ \A sid \in (DOMAIN speak_sessions) \ (DOMAIN speak_sessions') :
             /\ last'.op \in SubmitOps
             /\ Len(speak_sessions[sid].history) + 1 = speak_sessions[sid].total
      ]_vars

\* C11: an answer submission whose choice_index is outside 0..3 is answered
\* with an error and is not recorded: reading and vocabulary sessions are left
\* as they were, and a listening request stops at that answer
C11_OutOfRangeRejected ==
    [][(env'.out /\ last'.op \in SubmitOps)
          => (IsError(last') /\ UNCHANGED <<read_sessions, vocab_sessions>>)]_vars

\* a step of a reading session in which an answer was recorded, and one in
\* which the recorded answer was the last of its passage
ReadRecorded(old, new) == ReadAnsweredCount(new) = ReadAnsweredCount(old) + 1

ReadBlockEnds(old, new) ==
    /\ ReadRecorded(old, new)
    /\ old.questions_in_passage_asked >= old.questions_per_passage

\* the number of correct answers of the passage that the step ends
ReadBlockCorrect(old, new) == old.correct_in_passage + (new.correct_count - old.correct_count)

ClampIndex(i) == Max(0, Min(i, Len(CEFR_ORDER) - 1))

\* C12: a passage other than the last that ends with 4 of its 5 answers
\* correct raises the level by one from A1, A2, B1, B2 and C1, and leaves C2
\* at C2
C12_FourOfFive ==
    [][\A sid \in (DOMAIN read_sessions) \cap (DOMAIN read_sessions') :
          LET old == read_sessions[sid]
              new == read_sessions'[sid]
          IN (ReadBlockEnds(old, new) /\ old.passage_index < old.max_passages
              /\ ReadBlockCorrect(old, new) = 4)
                => IndexOf(new.current_cefr) = ClampIndex(IndexOf(old.current_cefr) + 1)]_vars

\* the block step and the final bump as the rules state them, on level indexes
StatedBlockStep(c) ==
    IF c = 5 THEN 2 ELSE IF c = 4 THEN 1 ELSE IF c = 3 THEN 0 ELSE IF c = 2 THEN -1 ELSE -2

StatedBump(idx, k) ==
    IF k >= 4 THEN ClampIndex(idx + 1) ELSE IF k <= 1 THEN ClampIndex(idx - 1) ELSE idx

\* C13: the answer that ends a passage with 5, 3, 2, 1 or 0 of its answers
\* correct moves the level by +2, 0, -1, -2, -2 within A1..C2 (on the last
\* passage the final bump follows), and the count of correct answers of the
\* passage starts again at 0
C13_BlockRule ==
    [][\A sid \in (DOMAIN read_sessions) \cap (DOMAIN read_sessions') :
          LET old == read_sessions[sid]
              new == read_sessions'[sid]
              c == ReadBlockCorrect(old, new)
              stepped == ClampIndex(IndexOf(old.current_cefr) + StatedBlockStep(c))
          IN ReadBlockEnds(old, new) =>
                /\ new.correct_in_passage = 0
                /\ c # 4 =>
                      IndexOf(new.current_cefr)
                         = IF old.passage_index < old.max_passages THEN stepped
                           ELSE StatedBump(stepped, c)]_vars

\* C13, reached: a first passage with at most one correct answer has taken a
\* session from A2 to A1, and the second passage starts with a count of 0
C13_Witness ==
    /\ Registered(read_sessions, SID)
    /\ read_sessions[SID].start_cefr = "A2"
    /\ read_sessions[SID].passage_index = 2
    /\ read_sessions[SID].questions_in_passage_asked = 1
    /\ read_sessions[SID].correct_count <= 1
    /\ read_sessions[SID].incorrect_count >= 4
    /\ read_sessions[SID].current_cefr = "A1"
    /\ read_sessions[SID].correct_in_passage = 0

\* C14: the answer that ends the last passage moves the level, after the
\* passage step, by +1 when at least 4 of the last five answers (the five of
\* that passage) were correct, by -1 when at most 1 was, and by nothing
\* otherwise, within A1..C2; every other answer leaves the level where the
\* passage step alone puts it
C14_FinalBump ==
    [][\A sid \in (DOMAIN read_sessions) \cap (DOMAIN read_sessions') :
          LET old == read_sessions[sid]
              new == read_sessions'[sid]
              c == ReadBlockCorrect(old, new)
              stepped == read_passage_level(old.current_cefr, c)
          IN ReadRecorded(old, new) =>
                IF ReadBlockEnds(old, new) /\ old.passage_index >= old.max_passages
                THEN /\ CountTrue(new.last_outcomes) = c
                     /\ IndexOf(new.current_cefr) = StatedBump(IndexOf(stepped), c)
                ELSE IF ReadBlockEnds(old, new)
                THEN new.current_cefr = stepped
                ELSE new.current_cefr = old.current_cefr]_vars

\* C14, reached: a session that came to its last passage at C2 and got at most
\* one of its five answers right has ended at B1
C14_Witness ==
    /\ Registered(read_sessions, SID)
    /\ read_sessions[SID].ended
    /\ read_sessions[SID].start_cefr = "C2"
    /\ read_sessions[SID].correct_count >= 10
    /\ CountTrue(read_sessions[SID].last_outcomes) <= 1
    /\ read_sessions[SID].current_cefr = "B1"

\* C15: a reading session started at B1 whose first five answers were all
\* correct is at C1 after the fifth, in its second passage, and the passage
\* and the five questions of that passage were generated for C1
C15_B1ToC1 ==
    \A sid \in DOMAIN read_sessions :
       LET state == read_sessions[sid]
       IN (state.start_cefr = "B1" /\ state.correct_count = 5 /\ state.incorrect_count = 0)
             => /\ state.current_cefr = "C1"
                /\ state.passage_index = 2
                /\ state.passage.cefr = "C1"
                /\ Len(state.current_passage_questions) = 5
                /\ \A i \in 1..Len(state.current_passage_questions) :
                      state.current_passage_questions[i].level_cefr = "C1"
                /\ Len(state.questions) = 6
                /\ state.questions[Len(state.questions)].level_cefr = "C1"

\* C15, reached: five correct answers after a start at B1
C15_Witness ==
    /\ Registered(read_sessions, SID)
    /\ read_sessions[SID].start_cefr = "B1"
    /\ read_sessions[SID].correct_count = 5
    /\ read_sessions[SID].incorrect_count = 0
    /\ read_sessions[SID].current_cefr = "C1"
    /\ last.op = "submit"
    /\ last.status = 200

\* C16: the pairwise rule of listening, for a pair of outcomes: below C2 two
\* correct answers raise the level by one, two incorrect ones lower it by one
\* (A1 stays A1) and one of each leaves it; at C2 two correct answers leave
\* the level at C2 and every other pair moves it to C1
C16_PairwiseRule ==
    last.op = "pairwise" =>
       LET k == CountTrue(last.outcome)
           top == Len(CEFR_ORDER) - 1
       IN IF last.from < top
          THEN /\ k = 2 => last.to = last.from + 1
               /\ k = 1 => last.to = last.from
               /\ k = 0 => last.to = Max(last.from - 1, 0)
          ELSE /\ k = 2 => last.to = top
               /\ k < 2 => last.to = top - 1

\* C16, reached: at C2 a pair with one correct answer has moved the level to C1
C16_Witness ==
    /\ last.op = "pairwise"
    /\ last.from = Len(CEFR_ORDER) - 1
    /\ last.outcome = <<TRUE, FALSE>>
    /\ last.to = Len(CEFR_ORDER) - 2

\* the pairwise rule as it is stated, on level indexes
StatedPair(idx, first, second) ==
    LET top == Len(CEFR_ORDER) - 1
    IN IF idx = top THEN (IF first /\ second THEN top ELSE top - 1)
       ELSE IF first /\ second THEN idx + 1
       ELSE IF ~first /\ ~second THEN Max(idx - 1, 0)
       ELSE idx

\* the level index after the first n answers of a history when the level is
\* adjusted after the answers at even positions and after no others
RECURSIVE LevelAfterPairs(_, _, _)
LevelAfterPairs(idx, history, n) ==
    IF n = 0 THEN idx
    ELSE LET before == LevelAfterPairs(idx, history, n - 1)
         IN IF n % 2 = 0 THEN StatedPair(before, history[n - 1], history[n]) ELSE before

\* C17: the level of a listening session is the start level adjusted once
\* after each answer at an even position, by the pair that answer completes:
\* an answer at an odd position changes no level, however the answers are
\* split across submissions
C17_EvenPositionsOnly ==
    \A sid \in DOMAIN listen_sessions :
       LET state == listen_sessions[sid]
       IN /\ state.asked = Len(state.history)
          /\ IndexOf(state.current_cefr)
                = LevelAfterPairs(IndexOf(state.start_cefr), state.history, Len(state.history))

\* C17, reached: a third answer was recorded after a pair that moved the level
C17_Witness ==
    /\ Registered(listen_sessions, SID)
    /\ Len(listen_sessions[SID].history) = 3
    /\ listen_sessions[SID].current_cefr # listen_sessions[SID].start_cefr
    /\ last.op \in SubmitOps
    /\ last.status = 200

\* C18: a vocabulary answer that is the second correct one in a row raises
\* the level by one (C2 stays C2), the second incorrect one in a row lowers it
\* by one (A1 stays A1), and both leave both streak counters at 0; any other
\* answer leaves the level, sets the opposite streak to 0 and counts one in
\* its own streak
C18_StreakRule ==
    [][\A sid \in (DOMAIN vocab_sessions) \cap (DOMAIN vocab_sessions') :
          LET old == vocab_sessions[sid]
              new == vocab_sessions'[sid]
              was_correct == new.history[Len(new.history)].correct
          IN Len(new.history) = Len(old.history) + 1 =>
                IF was_correct /\ old.correct_streak >= 1
                THEN /\ new.level_index = ClampIndex(old.level_index + 1)
                     /\ new.correct_streak = 0
                     /\ new.incorrect_streak = 0
                ELSE IF ~was_correct /\ old.incorrect_streak >= 1
                THEN /\ new.level_index = ClampIndex(old.level_index - 1)
                     /\ new.correct_streak = 0
                     /\ new.incorrect_streak = 0
                ELSE /\ new.level_index = old.level_index
                     /\ new.correct_streak = (IF was_correct THEN old.correct_streak + 1 ELSE 0)
                     /\ new.incorrect_streak
                           = (IF was_correct THEN 0 ELSE old.incorrect_streak + 1)]_vars

\* C18, reached: a second incorrect answer in a row has lowered the level and
\* left both streaks at 0
C18_Witness ==
    /\ Registered(vocab_sessions, SID)
    /\ Len(vocab_sessions[SID].history) >= 2
    /\ LET state == vocab_sessions[SID]
           n == Len(state.history)
       IN /\ ~state.history[n].correct
          /\ ~state.history[n - 1].correct
          /\ state.level_index = IndexOf(state.history[n].level) - 1
          /\ state.correct_streak = 0
          /\ state.incorrect_streak = 0

\* C19: every spoken answer that is recorded carries one of the grades
\* better, equal, worse, and moves the level by +1 for better, -1 for worse
\* and nothing for equal, C2 and A1 keeping their place
C19_DirectGrade ==
    [][\A sid \in (DOMAIN speak_sessions) \cap (DOMAIN speak_sessions') :
          LET old == speak_sessions[sid]
              new == speak_sessions'[sid]
              grade == new.history[Len(new.history)].grade
          IN Len(new.history) = Len(old.history) + 1 =>
                /\ grade \in {"better", "equal", "worse"}
                /\ grade = "better" => new.level_index = ClampIndex(old.level_index + 1)
                /\ grade = "worse" => new.level_index = ClampIndex(old.level_index - 1)
                /\ grade = "equal" => new.level_index = old.level_index]_vars

\* C19, reached: an answer graded better was recorded for an item of level
\* C2, and the session is at C2
C19_Witness ==
    /\ Registered(speak_sessions, SID)
    /\ speak_sessions[SID].history # <<>>
    /\ LET state == speak_sessions[SID]
           n == Len(state.history)
       IN /\ state.history[n].grade = "better"
          /\ state.history[n].level = "C2"
          /\ state.level_index = Len(LEVELS) - 1
    /\ last.op = "answer"
    /\ last.status = 200

\* C20: a completed prefetch job leaves the level, the asked counter, the
\* total, both streaks, the shown questions and the history of the session as
\* they were; in the side cache it only appends, level by level
C20_PrefetchOnlyFillsCache ==
    [][last' = NoResponse =>
          \A sid \in DOMAIN vocab_sessions :
             /\ sid \in DOMAIN vocab_sessions'
             /\ LET old == vocab_sessions[sid]
                    new == vocab_sessions'[sid]
                IN /\ new.level_index = old.level_index
                   /\ new.asked = old.asked
                   /\ new.total = old.total
                   /\ new.correct_streak = old.correct_streak
                   /\ new.incorrect_streak = old.incorrect_streak
                   /\ new.questions = old.questions
                   /\ new.history = old.history
                   /\ DOMAIN new.question_cache = DOMAIN old.question_cache
                   /\ \A l \in DOMAIN old.question_cache :
                         /\ Len(new.question_cache[l]) >= Len(old.question_cache[l])
                         /\ SubSeq(new.question_cache[l], 1, Len(old.question_cache[l]))
                               = old.question_cache[l]]_vars

\* C20, reached: a prefetch job has completed in a session that has an answer
\* in its history, and its question is in the side cache
C20_Witness ==
    /\ last = NoResponse
    /\ Registered(vocab_sessions, SID)
    /\ vocab_sessions[SID].history # <<>>
    /\ \E l \in DOMAIN vocab_sessions[SID].question_cache :
          vocab_sessions[SID].question_cache[l] # <<>>

\* the number of answers the session has logged for the item id
TimesScored(state, id) ==
    Cardinality({i \in 1..Len(state.answer_log) : state.answer_log[i].clip_id = id})

\* a submission of the session sid is waiting for its next batch, having
\* evaluated the clips of the batch last shown
SuspendedOnShown(sid) ==
    \E t \in tasks :
       /\ t.sid = sid
       /\ t.evaluated = [i \in 1..Len(ListenShown(listen_sessions[sid])) |->
                            ListenShown(listen_sessions[sid])[i].id]

\* a step in which a submission arrives
SubmissionArrives ==
    /\ tasks \subseteq tasks'
    /\ tasks' # tasks \/ last'.op = "submit"

\* C21: a submission for the batch last shown that arrives, in a session not
\* yet ended, while an earlier submission for the same batch is waiting for
\* its next batch is taken as well: its answers are added to the history, every clip of the batch is
\* then scored twice, and the history has more entries than there are items
\* with an answer
C21_RaceScoresTwice ==
    [][\A sid \in DOMAIN listen_sessions :
          (SuspendedOnShown(sid) /\ ~listen_sessions[sid].ended /\ SubmissionArrives) =>
             LET old == listen_sessions[sid]
                 new == listen_sessions'[sid]
             IN /\ Len(new.history) = Len(old.history) + Len(ListenShown(old))
                /\ \A i \in 1..Len(ListenShown(old)) :
                      TimesScored(new, ListenShown(old)[i].id) >= 2
                /\ Len(new.history) > Cardinality(ListenAnswered(new))]_vars

\* C21, reached: two submissions in flight right after the start, four
\* answers in the history for the two clips shown
C21_Witness ==
    /\ Registered(listen_sessions, SID)
    /\ Cardinality({t \in tasks : t.sid = SID /\ t.evaluated = <<1, 2>>}) = 2
    /\ Len(listen_sessions[SID].clip_lookup) = 2
    /\ Len(listen_sessions[SID].history) = 4
    /\ TimesScored(listen_sessions[SID], listen_sessions[SID].clips[1].id) = 2

\* the three strategies as they are stated, in their order: the whole text,
\* the contents of a fenced block, the span from the first opening brace to
\* the last closing brace
StatedExtract(text) ==
    LET block == FencedBlock(text)
        first == FirstOf(text, {i \in 1..Len(text) : text[i] = "{"})
        final == LastOf(text, {i \in 1..Len(text) : text[i] = "}"})
        span == IF first # 0 /\ final > first THEN SubSeq(text, first, final) ELSE <<>>
    IN IF json_loads(text) THEN Parsed(text)
       ELSE IF block.found /\ json_loads(block.candidate) THEN Parsed(block.candidate)
       ELSE IF json_loads(span) THEN Parsed(span)
       ELSE NotParsed

\* C30: each parser returns what the first of the three strategies that
\* parses gives (the whole text, the contents of the fenced block, the span
\* from the first opening to the last closing brace), and fails when none
\* parses
C30_ParserStrategies ==
    (last.op = "result" /\ last.kind \in {"object", "block"}) =>
       last.result = StatedExtract(last.input)

\* C22: the vocabulary factory returns an item only when the validator's
\* reply parsed and listed exactly one entry, the item's correct index; with
\* any other reply the item is discarded and the attempt is one of the four
C22_UniqueAnswerOnly ==
    (last.op = "result" /\ last.kind = "vocabulary" /\ vocab_item(last.input.raw).ok) =>
       LET reply == last.input.reply
           listed_one == /\ ~reply.fails
                         /\ reply.is_list
                         /\ Len(reply.indices) = 1
                         /\ reply.indices[1].kind \in {"int", "digits"}
                         /\ reply.indices[1].val = last.result.item.correct_index
       IN /\ last.result.ok <=> listed_one
          /\ ~last.result.ok =>
                (last.result.attempts = VocabAttempts /\ last.result.status = 502)

\* the items the content step accepted, and how many the session holds
AcceptedItems ==
    IF last.kind = "vocabulary"
    THEN (IF last.result.ok THEN <<last.result.item>> ELSE <<>>)
    ELSE last.result.items

InstalledItems ==
    IF last.kind = "clips"
    THEN (IF Registered(listen_sessions, SID) THEN Len(listen_sessions[SID].clips) ELSE 0)
    ELSE IF last.kind = "questions"
    THEN (IF Registered(read_sessions, SID)
          THEN Len(read_sessions[SID].current_passage_questions) ELSE 0)
    ELSE Len(AcceptedItems)

BatchOf == IF last.kind = "vocabulary" THEN <<last.input.raw>> ELSE last.input

WellFormed(item) ==
    /\ item.question # ""
    /\ item.stimulus # ""
    /\ item.options = 4
    /\ item.correct_index \in 0..3

\* C23: every accepted multiple-choice item has a non-empty question and
\* stimulus, exactly four options and a correct index in 0..3, and a batch is
\* accepted whole or not at all: the session holds what was accepted, and
\* that is every item of the batch or none
C23_AcceptedItemsWellFormed ==
    (last.op = "result" /\ last.kind \in {"clips", "questions", "vocabulary"}) =>
       /\ \A i \in 1..Len(AcceptedItems) : WellFormed(AcceptedItems[i])
       /\ InstalledItems = Len(AcceptedItems)
       /\ Len(AcceptedItems) \in {0, Len(BatchOf)}

RequestedCount == IF last.kind = "clips" THEN ListenBatch ELSE ReadQuestionsPerPassage

\* C24: a batch of clips or of questions with fewer or more items than were
\* asked for is refused with status 500 and the session holds none of its
\* items, also when every item of the batch is well formed
C24_WrongCountRejected ==
    (last.op = "result" /\ last.kind \in {"clips", "questions"}
        /\ Len(last.input) # RequestedCount) =>
       /\ last.result.status = 500
       /\ last.result.items = <<>>
       /\ InstalledItems = 0

\* three well-formed clips came for two, and the start was refused
C24_Witness ==
    /\ last.op = "result"
    /\ last.kind = "clips"
    /\ Len(last.input) = ListenBatch + 1
    /\ \A i \in 1..Len(last.input) : listen_clip_valid(last.input[i])
    /\ last.result.status = 500
    /\ ~Registered(listen_sessions, SID)

\* C25: next_question serves the head of the side cache of the session's
\* current level whenever that entry is not empty, without a generator call,
\* and generates a question for the current level only when the entry is
\* empty; start, whose session has an empty cache, generates
C25_CacheBeforeGeneration ==
    [][/\ \A sid \in DOMAIN vocab_sessions :
            (last'.op = "next" /\ last'.sid = sid) =>
               LET old == vocab_sessions[sid]
                   cached == old.question_cache[old.level_index]
               IN IF cached # <<>>
                  THEN /\ last'.status = 200
                       /\ last'.attempts = 0
                       /\ next_uuid' = next_uuid
                       /\ sid \in DOMAIN vocab_sessions'
                       /\ vocab_sessions'[sid].questions = Append(old.questions, Head(cached))
                       /\ vocab_sessions'[sid].question_cache[old.level_index] = Tail(cached)
                  ELSE /\ last'.attempts >= 1
                       /\ last'.status = 200 =>
                             /\ next_uuid' = next_uuid + 1
                             /\ vocab_sessions'[sid].question_cache = old.question_cache
                             /\ Len(vocab_sessions'[sid].questions) = Len(old.questions) + 1
                             /\ LET q == vocab_sessions'[sid].questions[Len(old.questions) + 1]
                                IN q.id = next_uuid /\ q.cefr = LevelAt(old.level_index)
       /\ (skill = "none" /\ skill' = "vocabulary" /\ last'.status = 200) =>
             /\ last'.attempts >= 1
             /\ vocab_sessions'[SID].questions[1].id = next_uuid]_vars

\* C25, reached: next_question has served a question without a generator
\* call, and the question is the newest the session shows
C25_Witness ==
    /\ last.op = "next"
    /\ last.status = 200
    /\ last.attempts = 0
    /\ Registered(vocab_sessions, SID)
    /\ Len(vocab_sessions[SID].questions) >= 2
    /\ vocab_sessions[SID].history # <<>>

\* higher gives better, lower gives worse, the same gives equal
StatedGrade(estimate, target) ==
    IF IndexOf(estimate) > IndexOf(target) THEN "better"
    ELSE IF IndexOf(estimate) < IndexOf(target) THEN "worse"
    ELSE "equal"

StatedMove(grade) == IF grade = "better" THEN 1 ELSE IF grade = "worse" THEN -1 ELSE 0

\* the evaluator was called for the answer and failed or gave no valid level
EvaluatorGaveNoLevel(resp) ==
    /\ resp.op = "answer"
    /\ ~resp.transcript.empty
    /\ resp.evaluation.fails \/ resp.evaluation.estimated_level \notin LevelSet

\* C26: when the evaluator's call fails or its reply has no valid predicted
\* level, the spoken answer is accepted with status 200, it is recorded with
\* the grade of the heuristic level against the level of the item, whatever
\* grade the evaluator gave, and the level moves by that grade
C26_HeuristicFallback ==
    [][EvaluatorGaveNoLevel(last') =>
          LET old == speak_sessions[SID]
              grade == StatedGrade(last'.transcript.heuristic, last'.item.cefr)
          IN /\ last'.status = 200
             /\ Registered(speak_sessions', SID)
             /\ speak_sessions'[SID].history =
                   Append(old.history, [item_id |-> last'.item.id, grade |-> grade,
                                        level |-> last'.item.cefr])
             /\ speak_sessions'[SID].level_index =
                   ClampIndex(old.level_index + StatedMove(grade))]_vars

\* C26, reached: the evaluator graded an answer worse without a level, the
\* heuristic found C2 in the transcript of an item below C2, and the answer
\* is recorded as better
C26_Witness ==
    /\ EvaluatorGaveNoLevel(last)
    /\ ~last.evaluation.fails
    /\ last.evaluation.grade = "worse"
    /\ last.transcript.heuristic = "C2"
    /\ last.item.cefr = "B1"
    /\ last.status = 200
    /\ Registered(speak_sessions, SID)
    /\ speak_sessions[SID].history[Len(speak_sessions[SID].history)].grade = "better"
    /\ speak_sessions[SID].level_index = IndexOf("B2")

\* the values of all the lists, list after list
RECURSIVE Flatten(_)
Flatten(lists) == IF lists = <<>> THEN <<>> ELSE Head(lists) \o Flatten(Tail(lists))

\* each value once, where it stands first
StatedFirstSeen(values) ==
    LET kept == {i \in 1..Len(values) : \A j \in 1..(i - 1) : values[j] # values[i]}
    IN [k \in 1..Cardinality(kept) |->
           values[CHOOSE i \in kept : Cardinality({j \in kept : j < i}) = k - 1]]

\* the clips installed so far have the ids below next_uuid, in this order
InstalledIds == [id \in 1..(next_uuid - 1) |-> id]

ListenFinished(resp) == resp.op = "submit" /\ resp.status = 200 /\ resp.finished

\* C27: the final summary of a listening session counts the correct and the
\* incorrect answers of the whole history, and lists the target vocabulary
\* and the target structures of every clip installed in the session, each
\* value once in the order it was first seen, cut to 20 and to 12 entries
C27_FinalSummary ==
    (skill = "listening" /\ ListenFinished(last)) =>
       LET state == listen_sessions[SID]
           summary == last.summary
           vocab == Flatten([i \in 1..Len(InstalledIds) |->
                                targets([id |-> InstalledIds[i]]).target_vocab])
           structs == Flatten([i \in 1..Len(InstalledIds) |->
                                  targets([id |-> InstalledIds[i]]).target_structures])
       IN /\ summary.correct = Cardinality({i \in 1..Len(state.history) : state.history[i]})
          /\ summary.incorrect = Cardinality({i \in 1..Len(state.history) : ~state.history[i]})
          /\ summary.correct + summary.incorrect = state.total
          /\ summary.target_vocab = Take(StatedFirstSeen(vocab), 20)
          /\ summary.target_structures = Take(StatedFirstSeen(structs), 12)

\* C27, reached: a session ended with 7 answers right and 3 wrong, and both
\* lists of its summary are cut
C27_Witness ==
    /\ skill = "listening"
    /\ ListenFinished(last)
    /\ last.summary.correct = 7
    /\ last.summary.incorrect = 3
    /\ Len(last.summary.target_vocab) = 20
    /\ Len(last.summary.target_structures) = 12
    /\ Len(listen_sessions[SID].clip_lookup) = ListenTotal

StatedExam(level) ==
    CASE level = "A1" -> "KET"
      [] level = "A2" -> "KET"
      [] level = "B1" -> "PET"
      [] level = "B2" -> "FCE"
      [] level = "C1" -> "FCE"
      [] level = "C2" -> "FCE"

Tagged(items) ==
    \A i \in 1..Len(items) : items[i].cambridge_level = StatedExam(items[i].level_cefr)

TaggedTarget(items) ==
    \A i \in 1..Len(items) : items[i].exam_target = StatedExam(items[i].cefr)

\* C29: the exam tag stored in a listening or a reading session is the one
\* its current level maps to, and every clip, question and item that was
\* generated, and every logged answer, carries the tag its own level maps to
C29_ExamTagFollowsLevel ==
    /\ \A sid \in DOMAIN listen_sessions :
          LET state == listen_sessions[sid]
          IN /\ state.cambridge_level = StatedExam(state.current_cefr)
             /\ Tagged(state.clips)
             /\ Tagged(state.clip_lookup)
             /\ Tagged(state.answer_log)
    /\ \A sid \in DOMAIN read_sessions :
          LET state == read_sessions[sid]
          IN /\ state.cambridge_level = StatedExam(state.current_cefr)
             /\ Tagged(state.questions)
             /\ Tagged(state.current_passage_questions)
    /\ \A sid \in DOMAIN vocab_sessions :
          /\ TaggedTarget(vocab_sessions[sid].questions)
          /\ \A l \in DOMAIN vocab_sessions[sid].question_cache :
                TaggedTarget(vocab_sessions[sid].question_cache[l])
    /\ \A sid \in DOMAIN speak_sessions : TaggedTarget(speak_sessions[sid].items)

\* C29, reached: a listening session that started at A2 with the tag KET is
\* at B1 with the tag PET, and holds clips of both levels
C29_Witness ==
    /\ Registered(listen_sessions, SID)
    /\ LET state == listen_sessions[SID]
       IN /\ state.start_cefr = "A2"
          /\ state.current_cefr = "B1"
          /\ state.cambridge_level = "PET"
          /\ \E i \in 1..Len(state.clip_lookup) : state.clip_lookup[i].cambridge_level = "KET"
          /\ \E i \in 1..Len(state.clips) : state.clips[i].cambridge_level = "PET"

\* C31: a spoken answer with an empty or missing transcript is accepted with
\* status 200, recorded in the history with the grade equal, and leaves the
\* level of the session as it was
C31_EmptyTranscriptNeutral ==
    [][(last'.op = "answer" /\ last'.transcript.empty) =>
          LET old == speak_sessions[SID]
          IN /\ last'.status = 200
             /\ Registered(speak_sessions', SID)
             /\ speak_sessions'[SID].history =
                   Append(old.history, [item_id |-> last'.item.id, grade |-> "equal",
                                        level |-> last'.item.cefr])
             /\ speak_sessions'[SID].level_index = old.level_index]_vars

\* C32: a listening submission of which an answer is refused with status 400
\* records none of its answers: asked, history, answer log and level of the
\* session are what they were
C32_SubmissionAtomic ==
    [][\A sid \in DOMAIN listen_sessions :
          (skill = "listening" /\ last'.op = "submit" /\ last'.sid = sid
              /\ last'.status = 400) =>
             /\ sid \in DOMAIN listen_sessions'
             /\ listen_sessions'[sid].asked = listen_sessions[sid].asked
             /\ listen_sessions'[sid].history = listen_sessions[sid].history
             /\ listen_sessions'[sid].answer_log = listen_sessions[sid].answer_log
             /\ listen_sessions'[sid].current_cefr = listen_sessions[sid].current_cefr]_vars

\* C33: a start request whose content generation fails leaves no session in
\* the registry of any skill
C33_FailedStartLeavesNoSession ==
    (last.op = "start" /\ IsError(last)) =>
       /\ listen_sessions = NoSessions
       /\ read_sessions = NoSessions
       /\ vocab_sessions = NoSessions
       /\ speak_sessions = NoSessions

\* C34: in the final summary of a finished listening or reading session the
\* correct count and the incorrect count add up to the total the summary
\* reports
C34_CountsAddUpToTotal ==
    /\ \A sid \in DOMAIN listen_sessions :
          listen_sessions[sid].ended =>
             LET summary == listen_final_summary(listen_sessions[sid])
             IN summary.correct + summary.incorrect = summary.total
    /\ \A sid \in DOMAIN read_sessions :
          read_sessions[sid].ended =>
             LET summary == read_get_summary(read_sessions, sid).summary
             IN summary.correct + summary.incorrect = summary.total

\* the session of the skill that was started has finished
SessionFinished ==
    \/ skill = "listening" /\ Registered(listen_sessions, SID) /\ listen_sessions[SID].ended
    \/ skill = "reading" /\ Registered(read_sessions, SID) /\ read_sessions[SID].ended
    \/ skill \in {"vocabulary", "speaking"} /\ last.op = "answer" /\ last.finished

\* C35: with a generator that always answers well and a client that answers
\* each item it is shown once, asking for the next item where the skill has a
\* request for it, the session of every skill finishes in the end
C35_EverySessionFinishes == <>SessionFinished

\* C36: a question served from the vocabulary side cache has the level the
\* session holds when it is served, it was returned by no earlier call and it
\* is left in no cache list, so no later call can return it; this with
\* next_question calls and prefetch jobs running concurrently
ServedFromCache == last'.op = "next" /\ last'.status = 200 /\ last'.attempts = 0

C36_CachedQuestionServedOnce ==
    [][(skill = "vocabulary" /\ ServedFromCache) =>
          LET old == vocab_sessions[SID]
              new == vocab_sessions'[SID]
              q == new.questions[Len(new.questions)]
          IN /\ Len(new.questions) = Len(old.questions) + 1
             /\ q.cefr = LevelAt(new.level_index)
             /\ \A i \in 1..Len(old.questions) : old.questions[i].id # q.id
             /\ \A l \in DOMAIN new.question_cache :
                   \A i \in 1..Len(new.question_cache[l]) : new.question_cache[l][i].id # q.id]_vars

\* a next_question call was answered from the side cache at a level other
\* than the starting one, while another call waits for the generator and the
\* cache still holds a question
C36_Witness ==
    /\ skill = "vocabulary"
    /\ Registered(vocab_sessions, SID)
    /\ last.op = "next" /\ last.status = 200 /\ last.attempts = 0
    /\ NextCalls # {}
    /\ LET state == vocab_sessions[SID]
           n == Len(state.questions)
       IN /\ state.questions[n].cefr # state.questions[1].cefr
          /\ \E l \in DOMAIN state.question_cache : state.question_cache[l] # <<>>

\* C37: a reading summary request leaves every session as it was, and for a
\* finished session it reports the level the session stores; the answer that
\* ends a session stores the level of the last passage adjustment moved once
\* by the last five outcomes, whatever summaries were requested before
C37_SummaryReadOnly ==
    [][/\ last'.op = "summary" =>
             /\ read_sessions' = read_sessions
             /\ read_sessions[SID].ended =>
                   /\ last'.summary.finished
                   /\ last'.summary.end_cefr = read_sessions[SID].current_cefr
       /\ (skill = "reading" /\ Registered(read_sessions, SID)
           /\ ~read_sessions[SID].ended /\ read_sessions'[SID].ended) =>
             LET old == read_sessions[SID]
                 new == read_sessions'[SID]
                 was_correct == new.last_outcomes[Len(new.last_outcomes)]
                 c == old.correct_in_passage + (IF was_correct THEN 1 ELSE 0)
             IN new.current_cefr =
                   _adjust_final_by_last_five(read_passage_level(old.current_cefr, c),
                                              new.last_outcomes)]_vars

\* the summary of a finished session was requested, it reports the stored
\* level, and the last five outcomes would move that level once more
C37_Witness ==
    /\ last.op = "summary"
    /\ Registered(read_sessions, SID)
    /\ read_sessions[SID].ended
    /\ last.summary.end_cefr = read_sessions[SID].current_cefr
    /\ _adjust_final_by_last_five(read_sessions[SID].current_cefr,
                                  read_sessions[SID].last_outcomes)
          # read_sessions[SID].current_cefr

\* C38: in every vocabulary session and every reading session the correct
\* streak and the incorrect streak are each 0 or 1 and are not both 1, after
\* any sequence of outcomes given to the streak rule from any starting level
C38_StreaksAtMostOne ==
    /\ \A sid \in DOMAIN vocab_sessions :
          /\ vocab_sessions[sid].correct_streak \in {0, 1}
          /\ vocab_sessions[sid].incorrect_streak \in {0, 1}
          /\ vocab_sessions[sid].correct_streak = 0 \/ vocab_sessions[sid].incorrect_streak = 0
    /\ \A sid \in DOMAIN read_sessions :
          /\ read_sessions[sid].correct_streak \in {0, 1}
          /\ read_sessions[sid].incorrect_streak \in {0, 1}
          /\ read_sessions[sid].correct_streak = 0 \/ read_sessions[sid].incorrect_streak = 0

\* the vocabulary rule has just moved the level up on a second correct answer
\* in a row, and both counters are back at 0
C38_Witness ==
    /\ last.op = "streak"
    /\ last.outcome = TRUE
    /\ last.to = last.from + 1
    /\ Registered(vocab_sessions, SID)
    /\ vocab_sessions[SID].correct_streak = 0
    /\ vocab_sessions[SID].incorrect_streak = 0

\* C39: in the vocabulary item factory an attempt that meets the provider
\* status 503 ends the call with 503 at that attempt, and an attempt that
\* meets another provider HTTP error status counts as one of the 4 attempts
\* and is followed by the next attempt, or by 502 when it was the fourth
Reached(script, i) == \A j \in 1..(i - 1) : script[j] \in RetriedOutcomes

====
